---- MODULE Spec2Model ----
(***************************************************************************)
(* habit-tracker: the asynchronous completion pipeline.                    *)
(*                                                                         *)
(*   - the streak calculator   src/core/events/handlers.py                 *)
(*   - the event bus           src/core/events/dispatcher.py, handlers.py  *)
(*   - the queue worker        src/infrastructure/aws/worker.py            *)
(*                                                                         *)
(* Every component has its own next-state relation and specification over  *)
(* the same variables; a specification leaves the other components idle.   *)
(***************************************************************************)
EXTENDS Integers, Sequences, FiniteSets, Bags, TLC

VARIABLES
    completions,      \* habit_completion table: habit id -> bag of completed_at
    streak_call,      \* get_streak_for_habit: the call's record
    event_registry,   \* handlers.event_registry: event type -> handlers
    bus_pc,           \* top-level dispatch: "idle" | "running" | "returned" | "raised"
    event,            \* the event of the top-level dispatch
    stack,            \* dispatch frames, the innermost last
    log,              \* the calls made so far, in order
    streak_store,     \* DynamoDB STREAK items: <<user, habit>> -> StreakCount
    ses_outbox,       \* the congratulation emails handed to SES, in order
    parse_in,         \* the message handed to parse_message, and what it is
    parse_out,        \* what parse_message returned or raised
    sqs_queue,        \* messages on the SQS queue, not deleted
    sent_count,       \* messages ever put on the queue
    wpc,              \* where main's loop is: "poll", "gather", "sleep"
    polls,            \* iterations of main's loop begun
    receive_message,  \* the response of the last receive_message
    tasks,            \* the process_message coroutines of the batch
    s3_objects,       \* the objects of the bucket: key and content
    ses_sent,         \* the report emails sent, in order
    iso_week,         \* datetime.now().isocalendar()[1] at the worker
    shutdown,         \* how main ended, and the calls of engine.dispose()
    deliveries,       \* how often each message was received, by receipt handle
    report_call,      \* a call of calculate_weekly_stats and its result
    week_call,        \* calls of get_week_start_end_dates and their results
    complete_calls    \* the POST /{habit_id}/complete requests, in order

streakVars == <<completions, streak_call>>
busVars    == <<event_registry, bus_pc, event, stack, log, streak_store,
                ses_outbox>>
parseVars  == <<parse_in, parse_out>>
reportVars == <<report_call, week_call>>
httpVars   == <<complete_calls>>
workerVars == <<sqs_queue, sent_count, wpc, polls, receive_message, tasks,
                s3_objects, ses_sent, iso_week, shutdown, deliveries>>
vars       == <<completions, streak_call, event_registry, bus_pc, event, stack,
                log, streak_store, ses_outbox, parse_in, parse_out, sqs_queue,
                sent_count, wpc, polls, receive_message, tasks, s3_objects,
                ses_sent, iso_week, shutdown, deliveries, report_call,
                week_call, complete_calls>>

(***************************************************************************)
(* Bounds of the model.                                                    *)
(***************************************************************************)
SlotsPerDay    == 2    \* instants told apart within one calendar day
MaxAddTime     == 9    \* latest completed_at of a single add_completion
MaxCompletions == 4    \* rows added one by one
MaxRun         == 8    \* longest short run of daily completions loaded
MaxStreakCount == 8    \* largest event.streak_count dispatched
MaxRequests    == 2    \* POST /{habit_id}/complete requests received
MaxAdvance     == 2    \* days the clock moves between two completions

Habits == {"h1", "h2"}
Users  == {1, 2}

(***************************************************************************)
(* Completion records and the habit_completion table                       *)
(***************************************************************************)
\* datetime.date(): the calendar day of an instant
Date(completed_at) == completed_at \div SlotsPerDay

RECURSIVE RowsBetween(_, _, _)
\* the rows of a bag at the instants lo..hi, the latest first
RowsBetween(bag, lo, hi) ==
    IF lo > hi THEN <<>>
    ELSE IF lo = hi THEN [i \in 1..CopiesIn(lo, bag) |-> lo]
    ELSE LET mid == (lo + hi) \div 2
         IN  RowsBetween(bag, mid + 1, hi) \o RowsBetween(bag, lo, mid)

\* ORDER BY completed_at DESC over a bag of rows
DescendingRows(bag) ==
    IF BagToSet(bag) = {} THEN <<>>
    ELSE LET t == CHOOSE x \in BagToSet(bag) : \A y \in BagToSet(bag) : y <= x
         IN  RowsBetween(bag, 0, t)

\* a query without its LIMIT
Take_All(s, n) == s

\* LIMIT n
Take(s, n) == IF Len(s) <= n THEN s ELSE SubSeq(s, 1, n)

CompletionsLimit == 90

\* HabitRepository.get_completions_by_habit: the rows of one habit, most
\* recent first, at most 90; an empty result raises (ok = FALSE).
get_completions_by_habit(table, habit_id) ==
    LET rows == Take(DescendingRows(table[habit_id]), CompletionsLimit)
    IN  [ok |-> rows # <<>>, rows |-> rows]

\* HabitRepository.add_completion
add_completion(table, habit_id, completed_at) ==
    [table EXCEPT ![habit_id] = @ (+) SetToBag({completed_at})]

(***************************************************************************)
(* 4.1 Streak calculator                                                   *)
(***************************************************************************)
RECURSIVE StreakLoop(_, _, _)
\* the for loop of check_habit_consecutive_days over the indices lo..hi
\* (1-based): how often streak += 1 ran, and whether the loop reached its
\* break.  The range is walked by halves, the earlier half first, and the
\* later half only when the earlier one did not break.
StreakLoop(rows, lo, hi) ==
    IF lo > hi THEN [added |-> 0, broke |-> FALSE]
    ELSE IF lo = hi
    THEN LET diff == Date(rows[lo]) - Date(rows[lo + 1])
         IN  IF diff = 1 THEN [added |-> 1, broke |-> FALSE]
             ELSE IF diff = 0 THEN [added |-> 0, broke |-> FALSE]
             ELSE [added |-> 0, broke |-> TRUE]
    ELSE LET mid   == (lo + hi) \div 2
             first == StreakLoop(rows, lo, mid)
             rest  == StreakLoop(rows, mid + 1, hi)
         IN  IF first.broke THEN first
             ELSE [added |-> first.added + rest.added, broke |-> rest.broke]

RECURSIVE StreakLoop_NoBreak(_, _, _)
StreakLoop_NoBreak(rows, i, streak) ==
    IF i > Len(rows) - 1 THEN streak
    ELSE LET diff == Date(rows[i]) - Date(rows[i + 1])
         IN  IF diff = 1 THEN StreakLoop_NoBreak(rows, i + 1, streak + 1)
             ELSE StreakLoop_NoBreak(rows, i + 1, streak)

RECURSIVE StreakLoop_DupBreaks(_, _, _)
StreakLoop_DupBreaks(rows, i, streak) ==
    IF i > Len(rows) - 1 THEN streak
    ELSE LET diff == Date(rows[i]) - Date(rows[i + 1])
         IN  IF diff = 1 THEN StreakLoop_DupBreaks(rows, i + 1, streak + 1)
             ELSE streak

\* a gap does not stop the walk (continue where the code breaks)
check_habit_consecutive_days_NoBreak(rows) == StreakLoop_NoBreak(rows, 1, 1)

\* a same-day pair stops the walk (no diff == 0 branch)
check_habit_consecutive_days_DupBreaks(rows) == StreakLoop_DupBreaks(rows, 1, 1)

\* streak = 1, then the loop over range(len(completions) - 1)
check_habit_consecutive_days(rows) == 1 + StreakLoop(rows, 1, Len(rows) - 1).added

(***************************************************************************)
(* get_streak_for_habit over a table filled by add_completion              *)
(***************************************************************************)
TotalRows(table) ==
    LET RECURSIVE Sum(_)
        Sum(hs) == IF hs = {} THEN 0
                   ELSE LET h == CHOOSE x \in hs : TRUE
                        IN  BagCardinality(table[h]) + Sum(hs \ {h})
    IN  Sum(Habits)

StreakIdle == [state |-> "idle", habit |-> "", rows |-> <<>>, streak |-> 0]

AddCompletion ==
    /\ streak_call.state = "idle"
    /\ bus_pc = "idle"
    /\ TotalRows(completions) < MaxCompletions
    /\ \E h \in Habits, t \in 0..MaxAddTime :
          completions' = add_completion(completions, h, t)
    /\ UNCHANGED <<streak_call, busVars, parseVars, workerVars, reportVars, httpVars>>

\* AsyncHabitService.get_streak_for_habit
GetStreakForHabit ==
    /\ streak_call.state = "idle"
    /\ \E h \in Habits :
          LET got == get_completions_by_habit(completions, h)
          IN  streak_call' =
                 IF got.ok
                 THEN [state |-> "returned", habit |-> h, rows |-> got.rows,
                       streak |-> check_habit_consecutive_days(got.rows)]
                 ELSE [state |-> "raised", habit |-> h, rows |-> <<>>, streak |-> 0]
    /\ UNCHANGED <<completions, busVars, parseVars, workerVars, reportVars, httpVars>>

NextStreak == AddCompletion \/ GetStreakForHabit

(***************************************************************************)
(* 4.2 Event bus: the registry                                             *)
(***************************************************************************)
EventTypes == {"BaseEvent", "HabitCompletedEvent", "AchievementUnlockedEvent"}

\* the @subscribe decorators of handlers.py, in the order the module runs them
Registrations ==
    << [type |-> "HabitCompletedEvent",      func |-> "check_streaks"],
       [type |-> "HabitCompletedEvent",      func |-> "award_points"],
       [type |-> "AchievementUnlockedEvent", func |-> "send_notification"] >>

\* a handler registered ahead of the earlier ones (insert(0, func))
subscribe_Prepend(registry, event_type, func) ==
    IF event_type \in DOMAIN registry
    THEN [registry EXCEPT ![event_type] = <<func>> \o @]
    ELSE registry @@ (event_type :> <<func>>)

\* subscribe: event_registry[event_type].append(func) on a defaultdict(list)
subscribe(registry, event_type, func) ==
    IF event_type \in DOMAIN registry
    THEN [registry EXCEPT ![event_type] = Append(@, func)]
    ELSE registry @@ (event_type :> <<func>>)

RECURSIVE RegistryAfter(_)
\* event_registry once the first n decorators have run
RegistryAfter(n) ==
    IF n = 0 THEN <<>>
    ELSE subscribe(RegistryAfter(n - 1), Registrations[n].type, Registrations[n].func)

\* event_registry[event_type]: a defaultdict inserts the missing key
RegistryLookup_Subscript(registry, event_type) ==
    IF event_type \in DOMAIN registry
    THEN [handlers |-> registry[event_type], registry |-> registry]
    ELSE [handlers |-> <<>>, registry |-> registry @@ (event_type :> <<>>)]

\* event_registry.get(event_type, []): the handlers, and the registry after
\* the lookup (get leaves a defaultdict as it is)
RegistryLookup(registry, event_type) ==
    [handlers |-> IF event_type \in DOMAIN registry THEN registry[event_type] ELSE <<>>,
     registry |-> registry]

(***************************************************************************)
(* Events                                                                  *)
(***************************************************************************)
Event(type, user_id, habit_id, streak_count, achievement_type) ==
    [type |-> type, user_id |-> user_id, habit_id |-> habit_id,
     streak_count |-> streak_count, achievement_type |-> achievement_type]

NoEvent == Event("", 0, "", 0, "")

HabitCompletedEvent(user_id, habit_id, streak_count) ==
    Event("HabitCompletedEvent", user_id, habit_id, streak_count, "")

\* an achievement event built without its achievement_type
AchievementUnlockedEvent_NoType(user_id, achievement_type) ==
    Event("AchievementUnlockedEvent", user_id, "", 0, "")

AchievementUnlockedEvent(user_id, achievement_type) ==
    Event("AchievementUnlockedEvent", user_id, "", 0, achievement_type)

\* a log entry: one call, or one step of dispatch
Entry(op, who, n, uid, ok) == [op |-> op, who |-> who, n |-> n, uid |-> uid, ok |-> ok]

(***************************************************************************)
(* 4.3 Handlers: the pure parts                                            *)
(***************************************************************************)
\* a threshold match (streak >= milestone) instead of the exact lookup
_check_milestone_Threshold(streak) ==
    IF streak >= 100 THEN "100 Days Streak"
    ELSE IF streak >= 30 THEN "1 Month Streak"
    ELSE IF streak >= 7 THEN "1 Week Streak"
    ELSE IF streak >= 1 THEN "TEST STREAK"
    ELSE ""

\* _check_milestone: milestones.get(streak, "")
_check_milestone(streak) ==
    CASE streak = 1   -> "TEST STREAK"
      [] streak = 7   -> "1 Week Streak"
      [] streak = 30  -> "1 Month Streak"
      [] streak = 100 -> "100 Days Streak"
      [] OTHER        -> ""

\* the persistence test of check_streaks with >= for >
ShouldPersist_Geq(streak, streak_count) == streak >= streak_count

\* check_streaks: if streak > event.streak_count
ShouldPersist(streak, streak_count) == streak > streak_count

\* the tiers of award_points with > for >=
PointsFor_Gt(streaks) ==
    IF streaks > 100 THEN 10 * 10
    ELSE IF streaks > 30 THEN 10 * 5
    ELSE IF streaks > 7 THEN 10 * 2
    ELSE 10

\* award_points: base points times the first matching tier's multiplier
PointsFor(streaks) ==
    IF streaks >= 100 THEN 10 * 10
    ELSE IF streaks >= 30 THEN 10 * 5
    ELSE IF streaks >= 7 THEN 10 * 2
    ELSE 10

\* DynamoDBClient.put_streak: put_item replaces the STREAK item
put_streak(store, user_id, habit_id, streak_count) ==
    [k \in DOMAIN store \cup {<<user_id, habit_id>>} |->
        IF k = <<user_id, habit_id>> THEN streak_count ELSE store[k]]

(***************************************************************************)
(* 4.2 Event bus: dispatch                                                 *)
(***************************************************************************)
Top     == stack[Len(stack)]
Depth   == Len(stack)
Handler == Top.handlers[Top.idx]

\* dispatch is inside its for loop, at a handler
AtHandler(name, hpc) ==
    /\ bus_pc = "running"
    /\ stack # <<>>
    /\ Top.idx <= Len(Top.handlers)
    /\ Handler = name
    /\ Top.hpc = hpc

Frame(ev, handlers) ==
    [ev |-> ev, handlers |-> handlers, idx |-> 1, hpc |-> "start", streak |-> 0]

\* the for loop moves on to the next handler
NextHandler(st) == [st EXCEPT ![Len(st)].idx = @ + 1, ![Len(st)].hpc = "start"]

\* "await handler(event, context)": the call, logged when the handler starts
Invoked == Append(log, Entry("invoke", Handler, Depth, Top.ev.user_id, TRUE))

\* the handler returned: the loop goes on
HandlerReturned(lg) ==
    /\ log' = Append(lg, Entry("return", Handler, Depth, Top.ev.user_id, TRUE))
    /\ stack' = NextHandler(stack)
    /\ UNCHANGED bus_pc

\* no try/except around the handler: its exception leaves every dispatch
HandlerRaised_Propagates(lg) ==
    /\ log' = lg
    /\ stack' = <<>>
    /\ bus_pc' = "raised"

\* the handler raised: except Exception logs it and continues
HandlerRaised(lg) ==
    /\ log' = Append(lg, Entry("error", Handler, Depth, Top.ev.user_id, FALSE))
    /\ stack' = NextHandler(stack)
    /\ UNCHANGED bus_pc

RunLengths == (1..MaxRun) \cup {29, 30, 31}

\* a habit's history: daily completions on n consecutive days, with or
\* without a second completion on the latest day, and with or without an
\* older completion behind a two-day gap
History(n, dup, tail) ==
    LET last == n + 2
        run  == {d * SlotsPerDay : d \in (last - n + 1)..last}
    IN  SetToBag(run)
        (+) (IF dup THEN SetToBag({last * SlotsPerDay + 1}) ELSE EmptyBag)
        (+) (IF tail THEN SetToBag({(last - n - 1) * SlotsPerDay}) ELSE EmptyBag)

LoadHistory ==
    /\ bus_pc = "idle"
    /\ streak_call.state = "idle"
    /\ TotalRows(completions) = 0
    /\ \E h \in Habits, n \in RunLengths, dup \in BOOLEAN, tail \in BOOLEAN :
          completions' = [completions EXCEPT ![h] = History(n, dup, tail)]
    /\ UNCHANGED <<streak_call, busVars, parseVars, workerVars, reportVars, httpVars>>

\* the streak counts an event carries: the low ones and the edges of the
\* point tiers
StreakCounts == (0..MaxStreakCount) \cup {29, 30, 99, 100}

TopLevelEvents ==
    {HabitCompletedEvent(u, h, c) : u \in Users, h \in Habits, c \in StreakCounts}
    \cup {AchievementUnlockedEvent(u, "Some achievement") : u \in Users}
    \cup {Event("BaseEvent", u, "", 0, "") : u \in Users}

\* dispatch(event, context), called by the background task
Dispatch ==
    /\ bus_pc = "idle"
    /\ \E e \in TopLevelEvents :
          LET look == RegistryLookup(event_registry, e.type)
          IN  /\ event' = e
              /\ event_registry' = look.registry
              /\ IF look.handlers = <<>>
                 THEN /\ bus_pc' = "returned"
                      /\ stack' = <<>>
                 ELSE /\ bus_pc' = "running"
                      /\ stack' = <<Frame(e, look.handlers)>>
    /\ UNCHANGED <<completions, streak_call, log, streak_store, ses_outbox,
                   parseVars, workerVars, reportVars, httpVars>>

\* check_streaks up to its first await: the completions of the habit
CheckStreaksFetch ==
    /\ AtHandler("check_streaks", "start")
    /\ LET got == get_completions_by_habit(completions, Top.ev.habit_id)
           call(ok) == Append(Invoked, Entry("get_completions_by_habit",
                                             Top.ev.habit_id, 0, Top.ev.user_id, ok))
       IN  \/ /\ got.ok
              /\ log' = call(TRUE)
              /\ stack' = [stack EXCEPT
                              ![Depth].hpc = "persist",
                              ![Depth].streak = check_habit_consecutive_days(got.rows)]
              /\ UNCHANGED bus_pc
           \/ HandlerRaised(call(FALSE))
    /\ UNCHANGED <<completions, streak_call, event_registry, event, streak_store, ses_outbox,
                   parseVars, workerVars, reportVars, httpVars>>

\* check_streaks: put_streak when the computed streak exceeds the event's
CheckStreaksPersist ==
    /\ AtHandler("check_streaks", "persist")
    /\ LET ev == Top.ev
           call(ok) == Append(log, Entry("put_streak", ev.habit_id, Top.streak,
                                         ev.user_id, ok))
       IN  IF ShouldPersist(Top.streak, ev.streak_count)
           THEN \/ /\ streak_store' =
                         put_streak(streak_store, ev.user_id, ev.habit_id, Top.streak)
                   /\ log' = call(TRUE)
                   /\ stack' = [stack EXCEPT ![Depth].hpc = "milestone"]
                   /\ UNCHANGED bus_pc
                \/ /\ HandlerRaised(call(FALSE))
                   /\ UNCHANGED streak_store
           ELSE /\ stack' = [stack EXCEPT ![Depth].hpc = "milestone"]
                /\ UNCHANGED <<log, bus_pc, streak_store>>
    /\ UNCHANGED <<completions, streak_call, event_registry, event, ses_outbox,
                   parseVars, workerVars, reportVars, httpVars>>

\* the milestone is looked up only for a streak that was persisted
CheckStreaksMilestone_OnlyPersisted ==
    /\ AtHandler("check_streaks", "milestone")
    /\ LET milestone == IF ShouldPersist(Top.streak, Top.ev.streak_count)
                        THEN _check_milestone(Top.streak) ELSE ""
           achievement_event == AchievementUnlockedEvent(Top.ev.user_id, milestone)
           look == RegistryLookup(event_registry, achievement_event.type)
           lg   == Append(log, Entry("dispatch", milestone, Depth, Top.ev.user_id, TRUE))
       IN  IF milestone = ""
           THEN HandlerReturned(log) /\ UNCHANGED event_registry
           ELSE /\ event_registry' = look.registry
                /\ IF look.handlers = <<>>
                   THEN HandlerReturned(lg)
                   ELSE /\ log' = lg
                        /\ stack' = Append([stack EXCEPT ![Depth].hpc = "after_dispatch"],
                                           Frame(achievement_event, look.handlers))
                        /\ UNCHANGED bus_pc
    /\ UNCHANGED <<completions, streak_call, event, streak_store, ses_outbox,
                   parseVars, workerVars, reportVars, httpVars>>

\* check_streaks: the milestone lookup and the nested dispatch
CheckStreaksMilestone ==
    /\ AtHandler("check_streaks", "milestone")
    /\ LET milestone == _check_milestone(Top.streak)
           achievement_event == AchievementUnlockedEvent(Top.ev.user_id, milestone)
           look == RegistryLookup(event_registry, achievement_event.type)
           lg   == Append(log, Entry("dispatch", milestone, Depth, Top.ev.user_id, TRUE))
       IN  IF milestone = ""
           THEN HandlerReturned(log) /\ UNCHANGED event_registry
           ELSE /\ event_registry' = look.registry
                /\ IF look.handlers = <<>>
                   THEN HandlerReturned(lg)
                   ELSE /\ log' = lg
                        /\ stack' = Append([stack EXCEPT ![Depth].hpc = "after_dispatch"],
                                           Frame(achievement_event, look.handlers))
                        /\ UNCHANGED bus_pc
    /\ UNCHANGED <<completions, streak_call, event, streak_store, ses_outbox,
                   parseVars, workerVars, reportVars, httpVars>>

\* award_points
AwardPoints ==
    /\ AtHandler("award_points", "start")
    /\ LET call(ok) == Append(Invoked, Entry("update_points", "",
                                             PointsFor(Top.ev.streak_count),
                                             Top.ev.user_id, ok))
       IN  \/ HandlerReturned(call(TRUE))
           \/ HandlerRaised(call(FALSE))
    /\ UNCHANGED <<completions, streak_call, event_registry, event, streak_store, ses_outbox,
                   parseVars, workerVars, reportVars, httpVars>>

\* send_notification up to the user lookup
SendNotificationLookup ==
    /\ AtHandler("send_notification", "start")
    /\ LET call(found, ok) == Append(Invoked, Entry("get_by_id", found, 0,
                                                    Top.ev.user_id, ok))
       IN  \/ /\ log' = call("user", TRUE)
              /\ stack' = [stack EXCEPT ![Depth].hpc = "send"]
              /\ UNCHANGED bus_pc
           \/ HandlerReturned(call("none", TRUE))
           \/ HandlerRaised(call("", FALSE))
    /\ UNCHANGED <<completions, streak_call, event_registry, event, streak_store, ses_outbox,
                   parseVars, workerVars, reportVars, httpVars>>

\* the address get_by_id finds for a user
EmailOf(user_id) == <<"user", user_id, "@example.com">>

SenderEmail == <<"sender", "@example.com">>

\* the "Data" of the body text: a plain string literal, its braces included
CongratulationBody(achievement_type) ==
    <<"Congratulations!  You've unlocked a new achievement: ", "{achievement_type}">>

\* SESClient.send_congratulation_email: the message handed to send_email
send_congratulation_email(achievement_type, recipient, sender) ==
    [Source |-> sender, ToAddresses |-> <<recipient>>,
     Subject |-> "Congratulations on Your Achievement!",
     Body |-> CongratulationBody(achievement_type)]

\* send_notification: the congratulation email
SendNotificationEmail ==
    /\ AtHandler("send_notification", "send")
    /\ LET call(ok) == Append(log, Entry("send_congratulation_email",
                                         Top.ev.achievement_type, 0,
                                         Top.ev.user_id, ok))
       IN  \/ /\ HandlerReturned(call(TRUE))
              /\ ses_outbox' = Append(ses_outbox,
                     send_congratulation_email(Top.ev.achievement_type,
                                               EmailOf(Top.ev.user_id), SenderEmail))
           \/ /\ HandlerRaised(call(FALSE))
              /\ UNCHANGED ses_outbox
    /\ UNCHANGED <<completions, streak_call, event_registry, event, streak_store,
                   parseVars, workerVars, reportVars, httpVars>>

\* the for loop of a dispatch is over: it returns to its caller, the
\* background task or the check_streaks that called it, which returns too
DispatchReturn ==
    /\ bus_pc = "running"
    /\ stack # <<>>
    /\ Top.idx > Len(Top.handlers)
    /\ LET rest == SubSeq(stack, 1, Len(stack) - 1)
           caller == rest[Len(rest)]
       IN  IF rest = <<>>
           THEN /\ bus_pc' = "returned"
                /\ stack' = <<>>
                /\ UNCHANGED log
           ELSE /\ log' = Append(log, Entry("return", caller.handlers[caller.idx],
                                            Len(rest), caller.ev.user_id, TRUE))
                /\ stack' = NextHandler(rest)
                /\ UNCHANGED bus_pc
    /\ UNCHANGED <<completions, streak_call, event_registry, event, streak_store, ses_outbox,
                   parseVars, workerVars, reportVars, httpVars>>

NextBus ==
    \/ LoadHistory
    \/ Dispatch
    \/ CheckStreaksFetch
    \/ CheckStreaksPersist
    \/ CheckStreaksMilestone
    \/ AwardPoints
    \/ SendNotificationLookup
    \/ SendNotificationEmail
    \/ DispatchReturn

(***************************************************************************)
(* 4.2 The HTTP completion flow: POST /{habit_id}/complete records the     *)
(* completion, computes the streak, and hands dispatch(event, context) to  *)
(* BackgroundTasks; the dispatch runs after the response, while further    *)
(* requests are served.  The dispatches of the model run one at a time.    *)
(***************************************************************************)
\* the histories before the requests: up to a week's streak, and some long
\* enough for the LIMIT of get_completions_by_habit to cut them
RecordedRuns == {6, 90, 100}

LoadCompletions ==
    /\ bus_pc = "idle"
    /\ complete_calls = <<>>
    /\ TotalRows(completions) = 0
    /\ \E h \in Habits, n \in RecordedRuns, dup \in BOOLEAN :
          completions' = [completions EXCEPT ![h] = History(n, dup, FALSE)]
    /\ UNCHANGED <<streak_call, busVars, parseVars, workerVars, reportVars, httpVars>>

\* habit.user_id: the request passes only when it is the current user's
OwnerOf(habit_id) == IF habit_id = "h1" THEN 1 ELSE 2

\* the latest completed_at on record
Latest(table) ==
    LET all == UNION {BagToSet(table[h]) : h \in Habits}
    IN  IF all = {} THEN 0 ELSE CHOOSE t \in all : \A u \in all : u <= t

\* a request between its awaits, and after its response
CompleteCall(habit_id, state, ev, recorded) ==
    [habit_id |-> habit_id, state |-> state, event |-> ev, recorded |-> recorded]

\* complete_habit up to AsyncHabitService.log_habit_completion: the row is
\* added with completed_at = now() of the database server
LogHabitCompletion ==
    /\ Len(complete_calls) < MaxRequests
    /\ \E h \in Habits, d \in 0..MaxAdvance :
          /\ completions' = add_completion(completions, h,
                                (Date(Latest(completions)) + d) * SlotsPerDay)
          /\ complete_calls' = Append(complete_calls, CompleteCall(h, "logged", NoEvent, 0))
    /\ UNCHANGED <<streak_call, busVars, parseVars, workerVars, reportVars>>

\* the event is built with streak_count = 0 and not with the new streak
CompleteHabitReturn_NoStreak ==
    /\ \E i \in DOMAIN complete_calls :
          /\ complete_calls[i].state = "logged"
          /\ LET h   == complete_calls[i].habit_id
                 got == get_completions_by_habit(completions, h)
             IN  complete_calls' =
                    [complete_calls EXCEPT ![i] =
                        IF got.ok
                        THEN CompleteCall(h, "scheduled",
                                          HabitCompletedEvent(OwnerOf(h), h, 0),
                                          BagCardinality(completions[h]))
                        ELSE CompleteCall(h, "raised", NoEvent, 0)]
    /\ UNCHANGED <<streakVars, busVars, parseVars, workerVars, reportVars>>

\* complete_habit from get_streak_for_habit on: the event carries the streak
\* as streak_count, background_tasks.add_task(dispatch, ...), the response
CompleteHabitReturn ==
    /\ \E i \in DOMAIN complete_calls :
          /\ complete_calls[i].state = "logged"
          /\ LET h   == complete_calls[i].habit_id
                 got == get_completions_by_habit(completions, h)
                 new_streak == check_habit_consecutive_days(got.rows)
             IN  complete_calls' =
                    [complete_calls EXCEPT ![i] =
                        IF got.ok
                        THEN CompleteCall(h, "scheduled",
                                          HabitCompletedEvent(OwnerOf(h), h, new_streak),
                                          BagCardinality(completions[h]))
                        ELSE CompleteCall(h, "raised", NoEvent, 0)]
    /\ UNCHANGED <<streakVars, busVars, parseVars, workerVars, reportVars>>

\* the background task of a request starts: dispatch(event, event_context)
RunBackgroundTask ==
    /\ bus_pc \in {"idle", "returned"}
    /\ \E i \in DOMAIN complete_calls :
          /\ complete_calls[i].state = "scheduled"
          /\ LET e    == complete_calls[i].event
                 look == RegistryLookup(event_registry, e.type)
             IN  /\ event' = e
                 /\ event_registry' = look.registry
                 /\ IF look.handlers = <<>>
                    THEN /\ bus_pc' = "returned"
                         /\ stack' = <<>>
                    ELSE /\ bus_pc' = "running"
                         /\ stack' = <<Frame(e, look.handlers)>>
          /\ complete_calls' =
                [j \in DOMAIN complete_calls |->
                    IF j = i THEN [complete_calls[j] EXCEPT !.state = "dispatched"]
                    ELSE IF complete_calls[j].state = "dispatched"
                         THEN [complete_calls[j] EXCEPT !.state = "done"]
                         ELSE complete_calls[j]]
    /\ UNCHANGED <<completions, streak_call, log, streak_store, ses_outbox,
                   parseVars, workerVars, reportVars>>

NextComplete ==
    \/ LoadCompletions
    \/ LogHabitCompletion
    \/ CompleteHabitReturn
    \/ RunBackgroundTask
    \/ CheckStreaksFetch
    \/ CheckStreaksPersist
    \/ CheckStreaksMilestone
    \/ AwardPoints
    \/ SendNotificationLookup
    \/ SendNotificationEmail
    \/ DispatchReturn

(***************************************************************************)
(* 4.6 Queue worker: parse_message                                         *)
(*                                                                         *)
(* A Python str is a sequence of one-character strings.  A message body is *)
(* JSON text, held as its sequence of lexical tokens; json_loads parses    *)
(* scalars, arrays of scalars and objects of scalars, which is all the     *)
(* bodies below use.  A UUID value is its 32 lower-case hex digits.        *)
(***************************************************************************)
Chars_user_id      == <<"u", "s", "e", "r", "_", "i", "d">>
Chars_request_time == <<"r", "e", "q", "u", "e", "s", "t", "_", "t", "i", "m", "e">>
Chars_urn          == <<"u", "r", "n", ":">>
Chars_uuid         == <<"u", "u", "i", "d", ":">>

Tok(t, s, n) == [t |-> t, s |-> s, n |-> n]
LBrace   == Tok("{", <<>>, 0)
RBrace   == Tok("}", <<>>, 0)
LBracket == Tok("[", <<>>, 0)
RBracket == Tok("]", <<>>, 0)
Colon    == Tok(":", <<>>, 0)
Comma    == Tok(",", <<>>, 0)
TStr(s)  == Tok("str", s, 0)
TNum(n)  == Tok("num", <<>>, n)
TNull    == Tok("null", <<>>, 0)
TTrue    == Tok("true", <<>>, 0)
TFalse   == Tok("false", <<>>, 0)
TBad     == Tok("bad", <<>>, 0)

\* a decoded JSON value; m holds the members of a list or of a dict
JV(k, s, n, m) == [k |-> k, s |-> s, n |-> n, m |-> m]
JNull == JV("null", <<>>, 0, <<>>)

ScalarTokens == {"str", "num", "null", "true", "false"}

ScalarOf(tok) ==
    CASE tok.t = "str"   -> JV("str", tok.s, 0, <<>>)
      [] tok.t = "num"   -> JV("num", <<>>, tok.n, <<>>)
      [] tok.t = "true"  -> JV("bool", <<>>, 1, <<>>)
      [] tok.t = "false" -> JV("bool", <<>>, 0, <<>>)
      [] OTHER           -> JNull

Failed == [ok |-> FALSE, val |-> JNull]

RECURSIVE ParseElements(_, _)
\* value ("," value)* of an array, the elements decoded so far in acc
ParseElements(ts, acc) ==
    IF ts = <<>> \/ ts[1].t \notin ScalarTokens THEN Failed
    ELSE IF Len(ts) = 1 THEN [ok |-> TRUE, val |-> JV("list", <<>>, 0, Append(acc, ScalarOf(ts[1])))]
    ELSE IF ts[2].t # "," THEN Failed
    ELSE ParseElements(SubSeq(ts, 3, Len(ts)), Append(acc, ScalarOf(ts[1])))

RECURSIVE ParseMembers(_, _)
\* string ":" value ("," string ":" value)* of an object
ParseMembers(ts, acc) ==
    IF Len(ts) < 3 \/ ts[1].t # "str" \/ ts[2].t # ":" \/ ts[3].t \notin ScalarTokens
    THEN Failed
    ELSE LET member == [key |-> ts[1].s, val |-> ScalarOf(ts[3])]
         IN  IF Len(ts) = 3 THEN [ok |-> TRUE, val |-> JV("dict", <<>>, 0, Append(acc, member))]
             ELSE IF ts[4].t # "," THEN Failed
             ELSE ParseMembers(SubSeq(ts, 5, Len(ts)), Append(acc, member))

\* json.loads on a str: ok = FALSE is json.JSONDecodeError
json_loads(text) ==
    IF text = <<>> THEN Failed
    ELSE IF Len(text) = 1 /\ text[1].t \in ScalarTokens
         THEN [ok |-> TRUE, val |-> ScalarOf(text[1])]
    ELSE IF text[1].t = "{" /\ text[Len(text)].t = "}" /\ Len(text) >= 2
         THEN IF Len(text) = 2 THEN [ok |-> TRUE, val |-> JV("dict", <<>>, 0, <<>>)]
              ELSE ParseMembers(SubSeq(text, 2, Len(text) - 1), <<>>)
    ELSE IF text[1].t = "[" /\ text[Len(text)].t = "]" /\ Len(text) >= 2
         THEN IF Len(text) = 2 THEN [ok |-> TRUE, val |-> JV("list", <<>>, 0, <<>>)]
              ELSE ParseElements(SubSeq(text, 2, Len(text) - 1), <<>>)
    ELSE Failed

\* bool(value) of a decoded JSON value
Truthy(v) ==
    CASE v.k = "null" -> FALSE
      [] v.k = "bool" -> v.n = 1
      [] v.k = "num"  -> v.n # 0
      [] v.k = "str"  -> v.s # <<>>
      [] OTHER        -> v.m # <<>>

StartsWith(s, pat) == Len(s) >= Len(pat) /\ SubSeq(s, 1, Len(pat)) = pat

RECURSIVE RemoveAll(_, _)
\* str.replace(pat, "")
RemoveAll(s, pat) ==
    IF s = <<>> THEN <<>>
    ELSE IF StartsWith(s, pat) THEN RemoveAll(SubSeq(s, Len(pat) + 1, Len(s)), pat)
    ELSE <<s[1]>> \o RemoveAll(Tail(s), pat)

RECURSIVE Strip(_, _)
\* str.strip(chars)
Strip(s, cs) ==
    IF s = <<>> THEN <<>>
    ELSE IF s[1] \in cs THEN Strip(Tail(s), cs)
    ELSE IF s[Len(s)] \in cs THEN Strip(SubSeq(s, 1, Len(s) - 1), cs)
    ELSE s

Contains(s, pat) == \E i \in 1..(Len(s) - Len(pat) + 1) : SubSeq(s, i, i + Len(pat) - 1) = pat

LowerHex == {"0", "1", "2", "3", "4", "5", "6", "7", "8", "9", "a", "b", "c", "d", "e", "f"}
UpperHex == {"A", "B", "C", "D", "E", "F"}

Lower(c) ==
    CASE c = "A" -> "a" [] c = "B" -> "b" [] c = "C" -> "c"
      [] c = "D" -> "d" [] c = "E" -> "e" [] c = "F" -> "f" [] OTHER -> c

Upper(c) ==
    CASE c = "a" -> "A" [] c = "b" -> "B" [] c = "c" -> "C"
      [] c = "d" -> "D" [] c = "e" -> "E" [] c = "f" -> "F" [] OTHER -> c

\* the hyphens stay in the digits, so the length test sees 36 characters
UUID_KeepsHyphens(hex_string) ==
    LET hex == Strip(RemoveAll(RemoveAll(hex_string, Chars_urn), Chars_uuid), {"{", "}"})
    IN  IF Len(hex) # 32 \/ \E i \in 1..Len(hex) : hex[i] \notin LowerHex \cup UpperHex
        THEN [ok |-> FALSE, digits |-> <<>>]
        ELSE [ok |-> TRUE, digits |-> [i \in 1..32 |-> Lower(hex[i])]]

\* uuid.UUID(hex_string): the prefixes, braces and hyphens removed, 32 hex
\* digits left; ok = FALSE is its ValueError
UUID(hex_string) ==
    LET hex == RemoveAll(Strip(RemoveAll(RemoveAll(hex_string, Chars_urn), Chars_uuid),
                               {"{", "}"}), <<"-">>)
    IN  IF Len(hex) # 32 \/ \E i \in 1..Len(hex) : hex[i] \notin LowerHex \cup UpperHex
        THEN [ok |-> FALSE, digits |-> <<>>]
        ELSE [ok |-> TRUE, digits |-> [i \in 1..32 |-> Lower(hex[i])]]

\* str(uuid): 8-4-4-4-12
UUIDStr(digits) ==
    SubSeq(digits, 1, 8) \o <<"-">> \o SubSeq(digits, 9, 12) \o <<"-">>
    \o SubSeq(digits, 13, 16) \o <<"-">> \o SubSeq(digits, 17, 20) \o <<"-">>
    \o SubSeq(digits, 21, 32)

\* the members of a decoded dict with the key; the last one is its value
MembersWith(body, key) == SelectSeq(body.m, LAMBDA mem : mem.key = key)

\* "user_id" in body: a key of a dict, an element of a list, a substring of a
\* str; a number or a bool is not iterable (TypeError)
InBody(body) ==
    CASE body.k = "dict" -> [ok |-> TRUE, has |-> MembersWith(body, Chars_user_id) # <<>>]
      [] body.k = "list" -> [ok |-> TRUE,
                             has |-> \E i \in 1..Len(body.m) :
                                        body.m[i].k = "str" /\ body.m[i].s = Chars_user_id]
      [] body.k = "str"  -> [ok |-> TRUE, has |-> Contains(body.s, Chars_user_id)]
      [] OTHER           -> [ok |-> FALSE, has |-> FALSE]

ParseError(type, message) ==
    [ok |-> FALSE, type |-> type, message |-> message, user_id |-> <<>>,
     receipt_handle |-> ""]

\* parse_message
parse_message(message) ==
    IF "Body" \notin DOMAIN message
    THEN ParseError("ValueError", "Message missing 'Body' field")
    ELSE IF "ReceiptHandle" \notin DOMAIN message
    THEN ParseError("ValueError", "Message missing 'ReceiptHandle' field")
    ELSE LET loaded == json_loads(message.Body)
             body   == loaded.val
    IN   IF ~loaded.ok
         THEN ParseError("ValueError", "Message body is not valid JSON")
         ELSE IF ~Truthy(body)
         THEN ParseError("ValueError", "Message missing 'Body' field")
         ELSE IF ~InBody(body).ok
         THEN ParseError("TypeError", "argument is not iterable")
         ELSE IF ~InBody(body).has
         THEN ParseError("ValueError", "user_id missing in message body")
         ELSE IF body.k # "dict"
         THEN ParseError("TypeError", "indices must be integers")
         ELSE LET mems    == MembersWith(body, Chars_user_id)
                  user_id == mems[Len(mems)].val
         IN   IF ~Truthy(user_id)
              THEN ParseError("ValueError", "user_id missing in message body")
              ELSE IF user_id.k # "str"
              THEN ParseError("ValueError", "user_id must be a string")
              ELSE IF ~UUID(user_id.s).ok
              THEN ParseError("ValueError", "user_id must be a valid UUID string")
              ELSE [ok |-> TRUE, type |-> "", message |-> "",
                    user_id |-> UUID(user_id.s).digits,
                    receipt_handle |-> message.ReceiptHandle]

\* datetime.isoformat() of the producer's clock
IsoFormat(t) == <<"T", IF t = 0 THEN "0" ELSE "1">>

\* SQSClient.send_message: json.dumps of user_id and request_time
MessageBody(user_id, request_time) ==
    <<LBrace, TStr(Chars_user_id), Colon, TStr(UUIDStr(user_id)), Comma,
      TStr(Chars_request_time), Colon, TStr(IsoFormat(request_time)), RBrace>>

(***************************************************************************)
(* Messages handed to parse_message                                        *)
(***************************************************************************)
UuidA == <<"1", "7", "1", "6", "3", "8", "4", "4", "d", "a", "0", "f", "4", "a", "0", "c", "b", "8", "0", "2", "8", "7", "8", "3", "c", "e", "b", "0", "f", "d", "7", "d">>
UuidB == <<"9", "f", "8", "e", "7", "d", "6", "c", "5", "b", "4", "a", "4", "3", "2", "1", "a", "0", "b", "1", "c", "2", "d", "3", "e", "4", "f", "5", "0", "6", "1", "7">>
UserIds == {UuidA, UuidB}

ReceiptHandles == {"rh-1", "rh-2"}

Obj(members) == <<LBrace>> \o members \o <<RBrace>>
Member(key, valtok) == <<TStr(key), Colon, valtok>>
UserIdIs(valtok) == Obj(Member(Chars_user_id, valtok))

\* a body and what it is: fails is the first check of parse_message's
\* contract that the body fails (3 not JSON, 4 no user_id that is a non-empty
\* string, 5 not a UUID; 0 none), uuid the user it names
Body(text, fails, uuid) == [text |-> text, fails |-> fails, uuid |-> uuid]

WellFormedBodies ==
    { Body(UserIdIs(TStr(UUIDStr(UuidA))), 0, UuidA),
      Body(UserIdIs(TStr(UUIDStr(UuidB))), 0, UuidB),
      Body(UserIdIs(TStr([i \in 1..36 |-> Upper(UUIDStr(UuidA)[i])])), 0, UuidA),
      Body(UserIdIs(TStr(UuidB)), 0, UuidB),
      Body(UserIdIs(TStr(Chars_urn \o Chars_uuid \o UUIDStr(UuidA))), 0, UuidA),
      Body(UserIdIs(TStr(<<"{">> \o UUIDStr(UuidB) \o <<"}">>)), 0, UuidB),
      Body(Obj(Member(Chars_request_time, TStr(IsoFormat(0))) \o <<Comma>>
               \o Member(Chars_user_id, TStr(UUIDStr(UuidA))) \o <<Comma>>
               \o Member(<<"n">>, TNum(5))), 0, UuidA) }

MalformedBodies ==
    { Body(<<>>, 3, <<>>),
      Body(<<TBad>>, 3, <<>>),
      Body(<<LBrace, TStr(Chars_user_id), TStr(UUIDStr(UuidA)), RBrace>>, 3, <<>>),
      Body(<<LBrace, TStr(Chars_user_id), Colon, TStr(UUIDStr(UuidA))>>, 3, <<>>),
      Body(UserIdIs(TStr(<<>>)), 4, <<>>),
      Body(UserIdIs(TNum(123)), 4, <<>>),
      Body(UserIdIs(TNum(0)), 4, <<>>),
      Body(UserIdIs(TNull), 4, <<>>),
      Body(Obj(Member(<<"o">>, TStr(UUIDStr(UuidA)))), 4, <<>>),
      Body(<<LBrace, RBrace>>, 4, <<>>),
      Body(<<LBracket, RBracket>>, 4, <<>>),
      Body(<<TNull>>, 4, <<>>),
      Body(<<TFalse>>, 4, <<>>),
      Body(<<TTrue>>, 4, <<>>),
      Body(<<TNum(0)>>, 4, <<>>),
      Body(<<TNum(5)>>, 4, <<>>),
      Body(<<TStr(<<>>)>>, 4, <<>>),
      Body(<<TStr(<<"a", "b", "c">>)>>, 4, <<>>),
      Body(<<TStr(Chars_user_id)>>, 4, <<>>),
      Body(<<LBracket, TStr(<<"a">>), RBracket>>, 4, <<>>),
      Body(<<LBracket, TStr(Chars_user_id), RBracket>>, 4, <<>>),
      Body(UserIdIs(TStr(<<"1", "2", "3">>)), 5, <<>>),
      Body(UserIdIs(TStr(<<"g">> \o Tail(UUIDStr(UuidA)))), 5, <<>>),
      Body(UserIdIs(TStr(Tail(UUIDStr(UuidA)))), 5, <<>>) }

NoBody == Body(<<>>, 1, <<>>)

\* the message dictionary the queue client returns
Message(body, receipt_handle) ==
    [MessageId |-> "m"]
    @@ (IF body = NoBody THEN <<>> ELSE ("Body" :> body.text))
    @@ (IF receipt_handle = "" THEN <<>> ELSE ("ReceiptHandle" :> receipt_handle))

ParseIdle == [state |-> "none", message |-> [MessageId |-> ""], fails |-> 0,
              uuid |-> <<>>, sent |-> FALSE]

\* a message of the producer (send_message), received by the worker
ReceiveSent ==
    /\ parse_in.state = "none"
    /\ \E u \in UserIds, t \in 0..1, rh \in ReceiptHandles :
          parse_in' = [state |-> "received",
                       message |-> Message(Body(MessageBody(u, t), 0, u), rh),
                       fails |-> 0, uuid |-> u, sent |-> TRUE]
    /\ UNCHANGED <<parse_out, streakVars, busVars, workerVars, reportVars, httpVars>>

\* a message of any other origin, with or without body and handle
ReceiveForeign ==
    /\ parse_in.state = "none"
    /\ \E b \in WellFormedBodies \cup MalformedBodies \cup {NoBody},
          rh \in ReceiptHandles \cup {""} :
          parse_in' = [state |-> "received",
                       message |-> Message(b, rh),
                       fails |-> IF b = NoBody THEN 1 ELSE IF rh = "" THEN 2 ELSE b.fails,
                       uuid |-> b.uuid, sent |-> FALSE]
    /\ UNCHANGED <<parse_out, streakVars, busVars, workerVars, reportVars, httpVars>>

\* process_message: user_id, receipt_handle = parse_message(message)
ParseMessage ==
    /\ parse_in.state = "received"
    /\ parse_in' = [parse_in EXCEPT !.state = "parsed"]
    /\ parse_out' = parse_message(parse_in.message)
    /\ UNCHANGED <<streakVars, busVars, workerVars, reportVars, httpVars>>

NextParse == ReceiveSent \/ ReceiveForeign \/ ParseMessage

(***************************************************************************)
(* The queue worker: main's polling loop and process_message               *)
(***************************************************************************)
MaxMessages == 2      \* messages ever put on the queue
MaxPolls == 2         \* iterations of main's while loop

ReceiptHandleOf == <<"rh-1", "rh-2", "rh-3", "rh-4">>

\* users that own at least one habit (get_all_habits_for_user non-empty)
UsersWithHabits == {UuidA}

\* bodies no producer of this system builds
PoisonBodies == { Body(<<TBad>>, 3, <<>>),
                  Body(UserIdIs(TStr(<<"1", "2", "3">>)), 5, <<>>) }

Stages == <<"parse", "report", "render", "pdf", "upload", "lookup", "email", "delete">>

\* one coroutine process_message(container, msg) of the batch
Task(msg) == [pc |-> "start", message |-> msg, user_id |-> <<>>,
              receipt_handle |-> "", week_number |-> 0,
              pdf_buffer |-> [data |-> <<>>, pos |-> 0], ran |-> <<>>,
              ok |-> {}, error |-> ""]

\* the stage was run, and succeeded or not
Ran(t, stage, good) ==
    [t EXCEPT !.ran = Append(@, stage),
              !.ok = IF good THEN @ \cup {stage} ELSE @]

Terminal(t) == t.pc \in {"returned", "raised", "cancelled"}

\* TaskRaised, were the batch gathered without return_exceptions: the first exception
\* reaches main's except clause at once and the batch is abandoned
TaskRaised_Propagates(ts, i, stage, err, loop) ==
    [tasks |-> [j \in 1..Len(ts) |->
                   IF j = i THEN [Ran(ts[i], stage, FALSE) EXCEPT !.pc = "raised", !.error = err]
                   ELSE IF Terminal(ts[j]) THEN ts[j]
                   ELSE [ts[j] EXCEPT !.pc = "cancelled"]],
     wpc |-> "sleep"]

\* an exception leaves process_message: gather(return_exceptions=True) keeps
\* it as the result of this task, the other tasks and the loop go on
TaskRaised(ts, i, stage, err, loop) ==
    [tasks |-> [ts EXCEPT ![i] = [Ran(ts[i], stage, FALSE) EXCEPT !.pc = "raised", !.error = err]],
     wpc |-> loop]

\* main is in its loop: engine.dispose() not called
Running == [main |-> "running", at |-> "", disposals |-> 0]

\* the producer: SQSClient.send_message for a user
SendMessage ==
    /\ wpc = "poll"
    /\ sent_count < MaxMessages
    /\ \E u \in UserIds :
          sqs_queue' = Append(sqs_queue,
              Message(Body(MessageBody(u, 0), 0, u), ReceiptHandleOf[sent_count + 1]))
    /\ sent_count' = sent_count + 1
    /\ UNCHANGED <<shutdown, iso_week, deliveries, wpc, polls, receive_message, tasks, s3_objects, ses_sent,
                   streakVars, busVars, parseVars, reportVars, httpVars>>

\* a message of another origin is put on the queue
SendPoison ==
    /\ wpc = "poll"
    /\ sent_count < MaxMessages
    /\ \E b \in PoisonBodies :
          sqs_queue' = Append(sqs_queue, Message(b, ReceiptHandleOf[sent_count + 1]))
    /\ sent_count' = sent_count + 1
    /\ UNCHANGED <<shutdown, iso_week, deliveries, wpc, polls, receive_message, tasks, s3_objects, ses_sent,
                   streakVars, busVars, parseVars, reportVars, httpVars>>

\* the messages of the queue at these positions, in queue order
Pick(queue, positions) ==
    [k \in 1..Cardinality(positions) |->
        queue[CHOOSE j \in positions : Cardinality({x \in positions : x < j}) = k - 1]]

\* main: receive_message returns messages of the queue (max_messages=10), a
\* task is made for each and the tasks are gathered
ReceiveMessages ==
    /\ wpc = "poll"
    /\ polls < MaxPolls
    /\ polls' = polls + 1
    /\ \E positions \in SUBSET (1..Len(sqs_queue)) \ {{}} :
          LET messages == Pick(sqs_queue, positions)
          IN  /\ receive_message' = [Messages |-> messages]
              /\ tasks' = [i \in 1..Len(messages) |-> Task(messages[i])]
              /\ deliveries' = [h \in DOMAIN deliveries |->
                    IF \E i \in 1..Len(messages) : messages[i].ReceiptHandle = h
                    THEN deliveries[h] + 1 ELSE deliveries[h]]
    /\ wpc' = "gather"
    /\ UNCHANGED <<shutdown, iso_week, sqs_queue, sent_count, s3_objects, ses_sent,
                   streakVars, busVars, parseVars, reportVars, httpVars>>

\* main: the long poll ends with no message; the loop polls again
ReceiveNothing ==
    /\ wpc = "poll"
    /\ polls < MaxPolls
    /\ polls' = polls + 1
    /\ receive_message' = [Messages |-> <<>>]
    /\ tasks' = <<>>
    /\ UNCHANGED <<shutdown, iso_week, deliveries, wpc, sqs_queue, sent_count, s3_objects, ses_sent,
                   streakVars, busVars, parseVars, reportVars, httpVars>>

\* main without its inner except clause: the RuntimeError of receive_message
\* leaves the loop
ReceiveFails_LeavesLoop ==
    /\ wpc = "poll"
    /\ polls < MaxPolls
    /\ polls' = polls + 1
    /\ wpc' = "stopped"
    /\ UNCHANGED <<shutdown, iso_week, deliveries, receive_message, tasks, sqs_queue, sent_count, s3_objects,
                   ses_sent, streakVars, busVars, parseVars, reportVars, httpVars>>

\* main: receive_message raises RuntimeError; logged, sleep(5)
ReceiveFails ==
    /\ wpc = "poll"
    /\ polls < MaxPolls
    /\ polls' = polls + 1
    /\ wpc' = "sleep"
    /\ UNCHANGED <<shutdown, iso_week, deliveries, receive_message, tasks, sqs_queue, sent_count, s3_objects,
                   ses_sent, streakVars, busVars, parseVars, reportVars, httpVars>>

\* main: asyncio.sleep(5) is over
Sleep ==
    /\ wpc = "sleep"
    /\ wpc' = "poll"
    /\ UNCHANGED <<shutdown, iso_week, deliveries, polls, receive_message, tasks, sqs_queue, sent_count,
                   s3_objects, ses_sent, streakVars, busVars, parseVars, reportVars, httpVars>>

\* main: gather returns once every task of the batch has its outcome
GatherReturn ==
    /\ wpc = "gather"
    /\ \A i \in 1..Len(tasks) : Terminal(tasks[i])
    /\ wpc' = "poll"
    /\ UNCHANGED <<shutdown, iso_week, deliveries, polls, receive_message, tasks, sqs_queue, sent_count,
                   s3_objects, ses_sent, streakVars, busVars, parseVars, reportVars, httpVars>>

\* calculate_weekly_stats returned None and process_message deletes the
\* message instead of leaving it
SkippedTask_Deletes(t) == [Ran(t, "report", FALSE) EXCEPT !.pc = "delete"]

\* calculate_weekly_stats returned None: a warning, and process_message
\* returns
SkippedTask(t) == [Ran(t, "report", FALSE) EXCEPT !.pc = "returned"]

\* the step of task i raised at this stage: what becomes of batch and loop
Raise(ts, i, stage, err) ==
    LET r == TaskRaised(ts, i, stage, err, wpc)
    IN  /\ tasks' = r.tasks
        /\ wpc' = r.wpc

\* process_message: parse_message(message), outside the try block
ProcessParse(i) ==
    /\ tasks[i].pc = "start"
    /\ LET r == parse_message(tasks[i].message)
       IN  IF r.ok
           THEN /\ tasks' = [tasks EXCEPT ![i] =
                      [Ran(@, "parse", TRUE) EXCEPT !.pc = "stats",
                                                    !.user_id = r.user_id,
                                                    !.receipt_handle = r.receipt_handle]]
                /\ UNCHANGED wpc
           ELSE Raise(tasks, i, "parse", r.type)
    /\ UNCHANGED <<shutdown, iso_week, deliveries, polls, receive_message, sqs_queue, sent_count, s3_objects,
                   ses_sent, streakVars, busVars, parseVars, reportVars, httpVars>>

\* io.BytesIO(): no data, the stream position at 0
BytesIO == [data |-> <<>>, pos |-> 0]

\* BytesIO.write: the bytes go in at the stream position, which moves past them
Write(b, bytes) ==
    [data |-> SubSeq(b.data, 1, b.pos) \o bytes
              \o SubSeq(b.data, b.pos + Len(bytes) + 1, Len(b.data)),
     pos |-> b.pos + Len(bytes)]

\* BytesIO.seek(offset)
Seek(b, offset) == [b EXCEPT !.pos = offset]

\* BytesIO.read(): the bytes from the stream position to the end, and the
\* position moves to the end
Read(b) == [bytes |-> SubSeq(b.data, b.pos + 1, Len(b.data)),
            buffer |-> [b EXCEPT !.pos = Len(b.data)]]

\* PDFGenerator.create_pdf_buffer: buffer = io.BytesIO(); write_pdf(buffer);
\* return buffer
create_pdf_buffer(pdf) == Write(BytesIO, pdf)

\* the PDF of this run of process_message, as bytes: one document for each
\* delivery of each message
PdfBuffer(t) == <<t.message.ReceiptHandle, deliveries[t.message.ReceiptHandle]>>

\* process_message without its upload: the user lookup follows the PDF
ProcessReport_SkipsUpload(i) ==
    /\ tasks[i].pc = "stats"
    /\ LET t1 == [Ran(tasks[i], "report", TRUE) EXCEPT !.week_number = iso_week]
           t2 == Ran(t1, "render", TRUE)
       IN  \/ Raise(tasks, i, "report", "DatabaseException")
           \/ /\ tasks[i].user_id \notin UsersWithHabits
              /\ tasks' = [tasks EXCEPT ![i] = SkippedTask(@)]
              /\ UNCHANGED wpc
           \/ /\ tasks[i].user_id \in UsersWithHabits
              /\ \/ Raise([tasks EXCEPT ![i] = t1], i, "render", "TemplateError")
                 \/ Raise([tasks EXCEPT ![i] = t2], i, "pdf", "Exception")
                 \/ /\ tasks' = [tasks EXCEPT ![i] =
                                    [Ran(t2, "pdf", TRUE) EXCEPT
                                        !.pc = "lookup",
                                        !.pdf_buffer = create_pdf_buffer(PdfBuffer(tasks[i]))]]
                    /\ UNCHANGED wpc
    /\ UNCHANGED <<shutdown, iso_week, deliveries, polls, receive_message, sqs_queue, sent_count, s3_objects,
                   ses_sent, streakVars, busVars, parseVars, reportVars, httpVars>>

\* process_message: calculate_weekly_stats, then render_html_report and
\* create_pdf_buffer, which run without suspension
ProcessReport(i) ==
    /\ tasks[i].pc = "stats"
    /\ LET t1 == [Ran(tasks[i], "report", TRUE) EXCEPT !.week_number = iso_week]
           t2 == Ran(t1, "render", TRUE)
       IN  \/ Raise(tasks, i, "report", "DatabaseException")
           \/ /\ tasks[i].user_id \notin UsersWithHabits
              /\ tasks' = [tasks EXCEPT ![i] = SkippedTask(@)]
              /\ UNCHANGED wpc
           \/ /\ tasks[i].user_id \in UsersWithHabits
              /\ \/ Raise([tasks EXCEPT ![i] = t1], i, "render", "TemplateError")
                 \/ Raise([tasks EXCEPT ![i] = t2], i, "pdf", "Exception")
                 \/ /\ tasks' = [tasks EXCEPT ![i] =
                                    [Ran(t2, "pdf", TRUE) EXCEPT
                                        !.pc = "upload",
                                        !.pdf_buffer = create_pdf_buffer(PdfBuffer(tasks[i]))]]
                    /\ UNCHANGED wpc
    /\ UNCHANGED <<shutdown, iso_week, deliveries, polls, receive_message, sqs_queue, sent_count, s3_objects,
                   ses_sent, streakVars, busVars, parseVars, reportVars, httpVars>>

\* the weeks of the year the worker runs in
Weeks == {44, 45}

\* the clock of the worker passes into the next ISO week
NewWeek ==
    /\ iso_week + 1 \in Weeks
    /\ iso_week' = iso_week + 1
    /\ UNCHANGED <<shutdown, deliveries, wpc, polls, receive_message, tasks, sqs_queue,
                   sent_count, s3_objects, ses_sent, streakVars, busVars,
                   parseVars, reportVars, httpVars>>

\* process_message: s3_key = f"reports/{user_id}/weekly_w{report.week_number}.pdf"
s3_key(user_id, week_number) ==
    <<"reports/", user_id, "/weekly_w", week_number, ".pdf">>

\* the objects of the bucket under this key
ObjectsUnder(objects, key) == {o \in objects : o.key = key}

\* the reports of this user in the bucket
ReportsOf(user_id) == {o \in s3_objects : o.key[2] = user_id}

\* the bucket holds an object under the key of this run
Stored(t) == ObjectsUnder(s3_objects, s3_key(t.user_id, t.week_number)) # {}

\* the emails sent to this user, by position
EmailsTo(user_id) == {k \in 1..Len(ses_sent) : ses_sent[k].recipient = user_id}

\* an upload that adds the buffer and keeps what the key held before
upload_file_to_bucket_KeepsOld(objects, buffer, key, outcome) ==
    LET r == Read(Seek(buffer, 0))
    IN  CASE outcome = "stored"      -> [raised |-> FALSE, result |-> TRUE, buffer |-> r.buffer,
                                         objects |-> objects \cup {[key |-> key, buffer |-> r.bytes]}]
          [] outcome = "ClientError" -> [raised |-> FALSE, result |-> FALSE,
                                         buffer |-> Seek(buffer, 0), objects |-> objects]
          [] OTHER                   -> [raised |-> TRUE, result |-> FALSE,
                                         buffer |-> Seek(buffer, 0), objects |-> objects]

\* S3Client.upload_file_to_bucket: buffer.seek(0) and upload_fileobj, which
\* reads the buffer to its end; True and what was read is the object of the
\* key, or False on ClientError, or another exception of the transfer
upload_file_to_bucket(objects, buffer, key, outcome) ==
    LET r == Read(Seek(buffer, 0))
    IN  CASE outcome = "stored"      -> [raised |-> FALSE, result |-> TRUE, buffer |-> r.buffer,
                                         objects |-> (objects \ ObjectsUnder(objects, key))
                                                     \cup {[key |-> key, buffer |-> r.bytes]}]
          [] outcome = "ClientError" -> [raised |-> FALSE, result |-> FALSE,
                                         buffer |-> Seek(buffer, 0), objects |-> objects]
          [] OTHER                   -> [raised |-> TRUE, result |-> FALSE,
                                         buffer |-> Seek(buffer, 0), objects |-> objects]

\* process_message: the upload of the PDF under reports/<user_id>/...; the
\* flag upload_file_to_bucket returns is not looked at. A transfer that
\* fails has read the buffer up to some position
ProcessUpload(i) ==
    /\ tasks[i].pc = "upload"
    /\ \E outcome \in {"stored", "ClientError", "S3UploadFailedError"} :
       \E read \in 0..Len(tasks[i].pdf_buffer.data) :
          LET r == upload_file_to_bucket(s3_objects, tasks[i].pdf_buffer,
                       s3_key(tasks[i].user_id, tasks[i].week_number), outcome)
              left == IF outcome = "stored" THEN r.buffer ELSE Seek(r.buffer, read)
              t == [tasks[i] EXCEPT !.pdf_buffer = left]
          IN  /\ outcome = "stored" => read = Len(tasks[i].pdf_buffer.data)
              /\ s3_objects' = r.objects
              /\ IF r.raised
                 THEN Raise([tasks EXCEPT ![i] = t], i, "upload", outcome)
                 ELSE /\ tasks' = [tasks EXCEPT ![i] =
                              [Ran(t, "upload", r.result) EXCEPT !.pc = "lookup"]]
                      /\ UNCHANGED wpc
    /\ UNCHANGED <<shutdown, iso_week, deliveries, polls, receive_message, sqs_queue, sent_count, ses_sent,
                   streakVars, busVars, parseVars, reportVars, httpVars>>

\* the test of user_data left out: the run goes on without a user
UserFound_NotTested(user_data) == TRUE

\* process_message: if not user_data: raise ValueError
UserFound(user_data) == user_data # "None"

\* process_message: user_repo.get_by_id returns the user or None, or raises
\* DatabaseException; ValueError when there is no such user
ProcessLookup(i) ==
    /\ tasks[i].pc = "lookup"
    /\ \/ \E user_data \in {"UserBase", "None"} :
             IF UserFound(user_data)
             THEN /\ tasks' = [tasks EXCEPT ![i] =
                          [Ran(@, "lookup", user_data # "None") EXCEPT !.pc = "email"]]
                  /\ UNCHANGED wpc
             ELSE Raise(tasks, i, "lookup", "ValueError")
       \/ Raise(tasks, i, "lookup", "DatabaseException")
    /\ UNCHANGED <<shutdown, iso_week, deliveries, polls, receive_message, sqs_queue, sent_count, s3_objects,
                   ses_sent, streakVars, busVars, parseVars, reportVars, httpVars>>

\* SESClient._add_attachment: attachment.seek(0); attachment.read()
add_attachment(attachment) == Read(Seek(attachment, 0))

\* process_message: send_email_with_attachment to the user's address; the
\* attachment is read before the SES call, which may raise
ProcessEmail(i) ==
    /\ tasks[i].pc = "email"
    /\ LET part == add_attachment(tasks[i].pdf_buffer)
           t == [tasks[i] EXCEPT !.pdf_buffer = part.buffer]
       IN  \/ /\ tasks' = [tasks EXCEPT ![i] = [Ran(t, "email", TRUE) EXCEPT !.pc = "delete"]]
              /\ ses_sent' = Append(ses_sent, [recipient |-> tasks[i].user_id,
                                               attachment |-> part.bytes])
              /\ UNCHANGED wpc
           \/ /\ Raise([tasks EXCEPT ![i] = t], i, "email", "RuntimeError")
              /\ UNCHANGED ses_sent
    /\ UNCHANGED <<shutdown, iso_week, deliveries, polls, receive_message, sqs_queue, sent_count, s3_objects,
                   streakVars, busVars, parseVars, reportVars, httpVars>>

\* the queue without its oldest message, whatever the receipt handle
Delete_Head(queue, receipt_handle) == Tail(queue)

\* the queue without the message of this receipt handle
Delete(queue, receipt_handle) ==
    SelectSeq(queue, LAMBDA m : m.ReceiptHandle # receipt_handle)

\* process_message: delete_message(receipt_handle), the last step
ProcessDelete(i) ==
    /\ tasks[i].pc = "delete"
    /\ \/ /\ tasks' = [tasks EXCEPT ![i] = [Ran(@, "delete", TRUE) EXCEPT !.pc = "returned"]]
          /\ sqs_queue' = Delete(sqs_queue, tasks[i].receipt_handle)
          /\ UNCHANGED wpc
       \/ /\ Raise(tasks, i, "delete", "RuntimeError")
          /\ UNCHANGED sqs_queue
    /\ UNCHANGED <<shutdown, iso_week, deliveries, polls, receive_message, sent_count, s3_objects, ses_sent,
                   streakVars, busVars, parseVars, reportVars, httpVars>>

NextWorker ==
    \/ NewWeek
    \/ SendMessage
    \/ SendPoison
    \/ ReceiveMessages
    \/ ReceiveNothing
    \/ ReceiveFails
    \/ Sleep
    \/ GatherReturn
    \/ \E i \in 1..Len(tasks) : ProcessParse(i)
    \/ \E i \in 1..Len(tasks) : ProcessReport(i)
    \/ \E i \in 1..Len(tasks) : ProcessUpload(i)
    \/ \E i \in 1..Len(tasks) : ProcessLookup(i)
    \/ \E i \in 1..Len(tasks) : ProcessEmail(i)
    \/ \E i \in 1..Len(tasks) : ProcessDelete(i)

\* the tasks of the batch after a cancellation: those in flight are cancelled
Cancelled(ts) ==
    [j \in 1..Len(ts) |->
        IF Terminal(ts[j]) THEN ts[j] ELSE [ts[j] EXCEPT !.pc = "cancelled"]]

\* an interrupt that the inner `except Exception` would catch: logged, sleep,
\* and the loop goes on
Interrupt_Caught ==
    /\ shutdown.main = "running"
    /\ wpc \in {"poll", "gather", "sleep"}
    /\ shutdown' = [main |-> "interrupted", at |-> wpc, disposals |-> 0]
    /\ tasks' = Cancelled(tasks)
    /\ wpc' = "sleep"
    /\ UNCHANGED <<iso_week, deliveries, polls, receive_message, sqs_queue, sent_count,
                   s3_objects, ses_sent, streakVars, busVars, parseVars, reportVars, httpVars>>

\* main is interrupted from outside, at the receive, in the gather or in the
\* sleep: KeyboardInterrupt or the cancellation of main is no Exception, so
\* the inner except clause lets it pass, the while loop is left and the
\* tasks of the batch are cancelled
Interrupt ==
    /\ shutdown.main = "running"
    /\ wpc \in {"poll", "gather", "sleep"}
    /\ shutdown' = [main |-> "interrupted", at |-> wpc, disposals |-> 0]
    /\ tasks' = Cancelled(tasks)
    /\ wpc' = "finally"
    /\ UNCHANGED <<iso_week, deliveries, polls, receive_message, sqs_queue, sent_count,
                   s3_objects, ses_sent, streakVars, busVars, parseVars, reportVars, httpVars>>

\* main: finally: await engine.dispose(); then main returns, when the
\* interrupt reached it as KeyboardInterrupt (except clause of line 159), or
\* ends with CancelledError, when the event loop cancelled it
Dispose ==
    /\ wpc = "finally"
    /\ \E end \in {"returned", "CancelledError"} :
          shutdown' = [shutdown EXCEPT !.main = end, !.disposals = @ + 1]
    /\ wpc' = "stopped"
    /\ UNCHANGED <<iso_week, deliveries, polls, receive_message, tasks, sqs_queue, sent_count,
                   s3_objects, ses_sent, streakVars, busVars, parseVars, reportVars, httpVars>>

NextInterrupt == NextWorker \/ Interrupt \/ Dispose

(***************************************************************************)
(* 4.4 Weekly report: ReportService over the habit repository              *)
(***************************************************************************)
MaxRows == 3          \* rows of habit_completion in a database or a list

MicrosPerDay == 4     \* microseconds of a day, scaled down
MaxDay == 15          \* the last day an instant is drawn from
MaxSuspend == 1       \* days that pass while calculate_weekly_stats awaits

HabitIds == 1..3

\* instants are whole days, day 0 a Monday
CompletionDays == {1, 2, 8}
\* a Thursday, the Sunday after it, the Wednesday after that
ReportDays == {3, 6, 9}

NoUser == 0

DayNames == <<"Mon", "Tue", "Wed", "Thu", "Fri", "Sat", "Sun">>

\* the abbreviated names in the order sorted() gives strings
SortedDayNames == <<"Fri", "Mon", "Sat", "Sun", "Thu", "Tue", "Wed">>

\* datetime.weekday(): Monday is 0
Weekday(day) == day % 7

\* completed_at.strftime("%a")
StrftimeA(day) == DayNames[Weekday(day) + 1]

\* isocalendar()[1], day 0 being the Monday of ISO week 1
IsoWeek(day) == 1 + (day \div 7)

\* a datetime: the day, and the microsecond of the day
Datetime(day, us) == [day |-> day, us |-> us]

\* time.min, time.max
TimeMin == 0
TimeMax == MicrosPerDay - 1

\* datetime +- timedelta(days=n): the time of day stays
PlusDays(dt, n) == [dt EXCEPT !.day = @ + n]

\* datetime.combine(dt.date(), time)
Combine(dt, time) == Datetime(dt.day, time)

\* get_week_start_end_dates without the two datetime.combine
get_week_start_end_dates_NotNormalized(current_date) ==
    LET start_of_week == PlusDays(current_date, 0 - Weekday(current_date.day))
        end_of_week == PlusDays(start_of_week, 6)
    IN  [start |-> start_of_week, end |-> end_of_week]

\* get_week_start_end_dates: Monday 00:00 and Sunday 23:59:59.999999
get_week_start_end_dates(current_date) ==
    LET start_of_week == PlusDays(current_date, 0 - Weekday(current_date.day))
        end_of_week == PlusDays(start_of_week, 6)
    IN  [start |-> Combine(start_of_week, TimeMin),
         end |-> Combine(end_of_week, TimeMax)]

\* the window of a call at some time of this day, by days: a completion of
\* the last day is inside, whatever its time
WeekOfDay(day) ==
    LET week == get_week_start_end_dates(Datetime(day, TimeMin))
    IN  [start |-> week.start.day, end |-> week.end.day]

\* the instants get_week_start_end_dates is called with
Instants == {Datetime(day, us) : day \in 0..MaxDay, us \in 0..(MicrosPerDay - 1)}

WeekIdle == [state |-> "idle"]

\* get_week_start_end_dates is called with two instants
GetWeekStartEndDates ==
    /\ week_call = WeekIdle
    /\ \E a \in Instants, b \in Instants :
          week_call' = [state |-> "done", a |-> a, b |-> b,
                        of_a |-> get_week_start_end_dates(a),
                        of_b |-> get_week_start_end_dates(b)]
    /\ UNCHANGED <<report_call, streakVars, busVars, parseVars, workerVars, httpVars>>

NextWeekDates == GetWeekStartEndDates

\* a row of habits, a row of habit_completion
HabitRow(id, user_id) == [id |-> id, user_id |-> user_id, name |-> <<"habit", id>>]
CompletionRow(habit_id, completed_at) == [habit_id |-> habit_id, completed_at |-> completed_at]

\* what scalars() makes of a row of several columns: its first column alone
FirstColumn(row) == [uuid |-> row.habit_id]

RECURSIVE SeqsUpTo(_, _)
\* the sequences over a set, of length n at most
SeqsUpTo(set, n) ==
    IF n = 0 THEN {<<>>}
    ELSE LET shorter == SeqsUpTo(set, n - 1)
         IN  shorter \cup {Append(q, x) : q \in shorter, x \in set}

AllCompletionRows == {CompletionRow(h, d) : h \in HabitIds, d \in CompletionDays}

\* a database: who owns each habit, and the completions in insertion order
Databases ==
    [owner : [HabitIds -> Users], completions : SeqsUpTo(AllCompletionRows, MaxRows)]

RECURSIVE InsertBy(_, _, _)
\* x put behind every element whose key is not greater: the sort is stable
InsertBy(field, sorted_list, x) ==
    IF sorted_list = <<>> THEN <<x>>
    ELSE IF sorted_list[Len(sorted_list)][field] <= x[field] THEN Append(sorted_list, x)
    ELSE Append(InsertBy(field, SubSeq(sorted_list, 1, Len(sorted_list) - 1), x),
                sorted_list[Len(sorted_list)])

RECURSIVE SortedFrom(_, _, _)
SortedFrom(field, done, rest) ==
    IF rest = <<>> THEN done
    ELSE SortedFrom(field, InsertBy(field, done, rest[1]), Tail(rest))

\* the list left in the order it came, where create_report sorts it
SortedByHabitId_Unsorted(rows) == rows

\* sorted(completed_habits, key=lambda x: x.habit_id)
SortedByHabitId(rows) == SortedFrom("habit_id", <<>>, rows)

\* HabitRepository.get_all_habits_for_user: the habits rows of the user
get_all_habits_for_user(db, entity_id) ==
    SelectSeq([h \in HabitIds |-> HabitRow(h, db.owner[h])],
              LAMBDA row : row.user_id = entity_id)

\* HabitRepository.get_completions_for_period: the joined rows of the user in
\* the window by completed_at, of which scalars() keeps the first column;
\* HabitNotFoundException, re-raised as DatabaseException, when there is none
get_completions_for_period(db, entity_id, start_date, end_date) ==
    LET rows == SortedFrom("completed_at", <<>>,
                    SelectSeq(db.completions,
                              LAMBDA c : /\ db.owner[c.habit_id] = entity_id
                                         /\ c.completed_at >= start_date
                                         /\ c.completed_at <= end_date))
        habits == [i \in 1..Len(rows) |-> FirstColumn(rows[i])]
    IN  IF habits # <<>>
        THEN [raised |-> FALSE, error |-> "", habits |-> habits]
        ELSE [raised |-> TRUE, error |-> "DatabaseException", habits |-> <<>>]

\* the repository a ReportService is built on: HabitRepository over a
\* database, or an IHabitRepository that hands out the lists it was given
RealRepository(db) ==
    [kind |-> "HabitRepository", db |-> db, habits |-> <<>>, completions |-> <<>>]
ListRepository(habit_rows, completion_rows) ==
    [kind |-> "lists", db |-> [owner |-> <<>>, completions |-> <<>>],
     habits |-> habit_rows, completions |-> completion_rows]

RepoHabits(repo, entity_id) ==
    IF repo.kind = "HabitRepository" THEN get_all_habits_for_user(repo.db, entity_id)
    ELSE repo.habits

RepoCompletions(repo, entity_id, start_date, end_date) ==
    IF repo.kind = "HabitRepository"
    THEN get_completions_for_period(repo.db, entity_id, start_date, end_date)
    ELSE [raised |-> FALSE, error |-> "", habits |-> repo.completions]

\* groupby over the sorted list, collected in a dict: for each key the last
\* run of neighbours that carry it
LogsByHabitId(completions_sorted, habit_id) ==
    LET n == Len(completions_sorted)
        hits == {j \in 1..n : completions_sorted[j].habit_id = habit_id}
    IN  IF hits = {} THEN <<>>
        ELSE LET last == CHOOSE j \in hits : \A m \in hits : m <= j
                 first == CHOOSE i \in 1..last :
                             /\ \A m \in i..last : m \in hits
                             /\ i = 1 \/ (i - 1) \notin hits
             IN  SubSeq(completions_sorted, first, last)

\* HabitStats of one habit
HabitStats(habit, habit_logs) ==
    [name |-> habit.name,
     total |-> Len(habit_logs),
     days |-> SelectSeq(SortedDayNames,
                 LAMBDA d : \E i \in 1..Len(habit_logs) :
                               StrftimeA(habit_logs[i].completed_at) = d),
     status |-> IF habit_logs = <<>> THEN "Missed" ELSE "Active"]

\* ReportService.create_report; AttributeError when an element of
\* completed_habits has no habit_id
create_report(active_habits, completed_habits) ==
    IF \E i \in 1..Len(completed_habits) : "habit_id" \notin DOMAIN completed_habits[i]
    THEN [raised |-> TRUE, error |-> "AttributeError", report |-> <<>>]
    ELSE LET completions_sorted == SortedByHabitId(completed_habits)
         IN  [raised |-> FALSE, error |-> "",
              report |-> [i \in 1..Len(active_habits) |->
                            HabitStats(active_habits[i],
                                       LogsByHabitId(completions_sorted, active_habits[i].id))]]

\* what a call of calculate_weekly_stats came to
StatsResult(kind, error, fetched, user_id, week, week_number, habits) ==
    [kind |-> kind, error |-> error, fetched |-> fetched, user_id |-> user_id,
     start_date |-> week.start, end_date |-> week.end,
     week_number |-> week_number, habits |-> habits]

NoWeek == [start |-> 0, end |-> 0]

\* calculate_weekly_stats without its test of user_habits: the completions
\* are fetched for a user without habits too
calculate_weekly_stats_NoHabitsTest(repo, user_id, now, later) ==
    IF user_id = NoUser THEN StatsResult("none", "", FALSE, user_id, NoWeek, 0, <<>>)
    ELSE
    LET week == WeekOfDay(now)
        user_habits == RepoHabits(repo, user_id)
        completed_habits == RepoCompletions(repo, user_id, week.start, week.end)
        habits == create_report(user_habits, completed_habits.habits)
    IN  IF completed_habits.raised
        THEN StatsResult("raised", completed_habits.error, TRUE, user_id, NoWeek, 0, <<>>)
        ELSE IF habits.raised
        THEN StatsResult("raised", habits.error, TRUE, user_id, NoWeek, 0, <<>>)
        ELSE IF habits.report = <<>> \/ IsoWeek(later) = 0
        THEN StatsResult("none", "", TRUE, user_id, NoWeek, 0, <<>>)
        ELSE StatsResult("report", "", TRUE, user_id, week, IsoWeek(later), habits.report)

\* ReportService.calculate_weekly_stats; now and later are the two readings
\* of datetime.now()
calculate_weekly_stats(repo, user_id, now, later) ==
    IF user_id = NoUser THEN StatsResult("none", "", FALSE, user_id, NoWeek, 0, <<>>)
    ELSE
    LET week == WeekOfDay(now)
        user_habits == RepoHabits(repo, user_id)
        completed_habits == RepoCompletions(repo, user_id, week.start, week.end)
        habits == create_report(user_habits, completed_habits.habits)
        none(fetched) == StatsResult("none", "", fetched, user_id, NoWeek, 0, <<>>)
        raised(error) == StatsResult("raised", error, TRUE, user_id, NoWeek, 0, <<>>)
    IN  IF user_habits = <<>> THEN none(FALSE)
        ELSE IF completed_habits.raised THEN raised(completed_habits.error)
        ELSE IF habits.raised THEN raised(habits.error)
        ELSE IF habits.report = <<>> \/ IsoWeek(later) = 0 THEN none(TRUE)
        ELSE StatsResult("report", "", TRUE, user_id, week, IsoWeek(later), habits.report)

ReportIdle ==
    [state |-> "idle", repo |-> ListRepository(<<>>, <<>>), user_id |-> NoUser,
     now |-> 0, later |-> 0, result |-> StatsResult("none", "", FALSE, NoUser, NoWeek, 0, <<>>)]

ReportCall(repo, user_id, now, later) ==
    [state |-> "done", repo |-> repo, user_id |-> user_id, now |-> now,
     later |-> later, result |-> calculate_weekly_stats(repo, user_id, now, later)]

\* the second datetime.now() of a call: the day of the first, or after it
LaterDays(now) == now..(now + MaxSuspend)

\* lists of habits of one user, each habit once
HabitLists ==
    {q \in SeqsUpTo(HabitIds, 2) : \A i, j \in 1..Len(q) : q[i] = q[j] => i = j}

\* calculate_weekly_stats of a ReportService built on HabitRepository
CalculateWeeklyStats ==
    /\ report_call.state = "idle"
    /\ \E db \in Databases, u \in Users \cup {NoUser}, now \in ReportDays :
       \E later \in LaterDays(now) :
          report_call' = ReportCall(RealRepository(db), u, now, later)
    /\ UNCHANGED <<week_call, streakVars, busVars, parseVars, workerVars, httpVars>>

\* calculate_weekly_stats of a ReportService built on a repository that
\* returns the given habits and completion rows, in the given order
CalculateWeeklyStatsOfLists ==
    /\ report_call.state = "idle"
    /\ \E q \in HabitLists, rows \in SeqsUpTo(AllCompletionRows, MaxRows),
          u \in {1, NoUser}, now \in ReportDays :
       \E later \in LaterDays(now) :
          report_call' = ReportCall(
              ListRepository([i \in 1..Len(q) |-> HabitRow(q[i], u)], rows), u, now, later)
    /\ UNCHANGED <<week_call, streakVars, busVars, parseVars, workerVars, httpVars>>

NextReport == CalculateWeeklyStats \/ CalculateWeeklyStatsOfLists

(***************************************************************************)
(* 4.5 The worker under at-least-once delivery: main with the container of *)
(*     AppContainer.create, every external call succeeding                 *)
(***************************************************************************)
\* the row of the users table behind a user_id of a message
UserNumber(user_id) == IF user_id = UuidA THEN 1 ELSE 2

\* the day the worker runs on
LiveNow == 9

\* databases of the worker: user 1 owns the habits, with no completion at
\* all or with one in the week of LiveNow
LiveDatabases ==
    {[owner |-> [h \in HabitIds |-> 1], completions |-> rows] :
        rows \in {<<>>, <<CompletionRow(1, 8)>>}}

\* the repository of the report service: HabitRepository, as wired by
\* AppContainer.create, or the stand-in of the tests
LiveRepositories ==
    {RealRepository(db) : db \in LiveDatabases}
       \cup {ListRepository(<<HabitRow(1, 1)>>, <<CompletionRow(1, 8)>>)}

\* main: container = AppContainer.create(engine, sqs_queue_url, session_manager)
CreateContainer ==
    /\ report_call = ReportIdle
    /\ \E repo \in LiveRepositories :
          report_call' = [ReportIdle EXCEPT !.state = "wired", !.repo = repo]
    /\ UNCHANGED <<week_call, streakVars, busVars, parseVars, workerVars, httpVars>>

Handles == {ReceiptHandleOf[n] : n \in 1..MaxMessages}

\* main: receive_message returns a batch that holds the message of this
\* receipt handle; the loop has no last iteration, and the count of
\* deliveries stops at MaxPolls
LiveReceive(h) ==
    /\ report_call.state = "wired"
    /\ wpc = "poll"
    /\ \E positions \in SUBSET (1..Len(sqs_queue)) \ {{}} :
          LET messages == Pick(sqs_queue, positions)
          IN  /\ \E i \in 1..Len(messages) : messages[i].ReceiptHandle = h
              /\ receive_message' = [Messages |-> messages]
              /\ tasks' = [i \in 1..Len(messages) |-> Task(messages[i])]
              /\ deliveries' = [g \in DOMAIN deliveries |->
                    IF /\ \E i \in 1..Len(messages) : messages[i].ReceiptHandle = g
                       /\ deliveries[g] < MaxPolls
                    THEN deliveries[g] + 1 ELSE deliveries[g]]
    /\ wpc' = "gather"
    /\ UNCHANGED <<shutdown, iso_week, polls, sqs_queue, sent_count, s3_objects, ses_sent,
                   streakVars, busVars, parseVars, reportVars, httpVars>>

\* the messages that come to be on the queue, and what parse_message makes
\* of each
QueueMessages ==
    {Message(b, h) : b \in {Body(MessageBody(u, 0), 0, u) : u \in UserIds} \cup PoisonBodies,
                     h \in Handles}
Parsed == [m \in QueueMessages |-> parse_message(m)]

\* process_message: parse_message(message)
LiveParse(i) ==
    /\ tasks[i].pc = "start"
    /\ LET r == Parsed[tasks[i].message]
       IN  IF r.ok
           THEN /\ tasks' = [tasks EXCEPT ![i] =
                      [Ran(@, "parse", TRUE) EXCEPT !.pc = "stats",
                                                    !.user_id = r.user_id,
                                                    !.receipt_handle = r.receipt_handle]]
                /\ UNCHANGED wpc
           ELSE Raise(tasks, i, "parse", r.type)
    /\ UNCHANGED <<shutdown, iso_week, deliveries, polls, receive_message, sqs_queue, sent_count, s3_objects,
                   ses_sent, streakVars, busVars, parseVars, reportVars, httpVars>>

\* process_message: calculate_weekly_stats of the report service of the
\* container, then render_html_report and create_pdf_buffer
LiveReport(i) ==
    /\ tasks[i].pc = "stats"
    /\ LET report == calculate_weekly_stats(report_call.repo,
                         UserNumber(tasks[i].user_id), LiveNow, LiveNow)
           t1 == [Ran(tasks[i], "report", TRUE) EXCEPT !.week_number = report.week_number]
           t3 == Ran(Ran(t1, "render", TRUE), "pdf", TRUE)
       IN  CASE report.kind = "raised" -> Raise(tasks, i, "report", report.error)
             [] report.kind = "none" ->
                   /\ tasks' = [tasks EXCEPT ![i] = SkippedTask(@)]
                   /\ UNCHANGED wpc
             [] OTHER ->
                   /\ tasks' = [tasks EXCEPT ![i] =
                         [t3 EXCEPT !.pc = "upload",
                                    !.pdf_buffer = create_pdf_buffer(PdfBuffer(tasks[i]))]]
                   /\ UNCHANGED wpc
    /\ UNCHANGED <<shutdown, iso_week, deliveries, polls, receive_message, sqs_queue, sent_count,
                   s3_objects, ses_sent, streakVars, busVars, parseVars, reportVars, httpVars>>

\* the external call of the stage succeeds
LiveUpload(i) == ProcessUpload(i) /\ "upload" \in tasks'[i].ok
LiveLookup(i) == ProcessLookup(i) /\ "lookup" \in tasks'[i].ok
LiveEmail(i) == ProcessEmail(i) /\ "email" \in tasks'[i].ok
LiveDelete(i) == ProcessDelete(i) /\ "delete" \in tasks'[i].ok

\* a step of a coroutine of the batch
LiveTaskStep ==
    \E i \in 1..Len(tasks) :
       \/ LiveParse(i)
       \/ LiveReport(i)
       \/ LiveUpload(i)
       \/ LiveLookup(i)
       \/ LiveEmail(i)
       \/ LiveDelete(i)

NextLive ==
    \/ CreateContainer
    \/ SendMessage
    \/ SendPoison
    \/ \E h \in Handles : LiveReceive(h)
    \/ GatherReturn
    \/ \E i \in 1..Len(tasks) : LiveParse(i)
    \/ \E i \in 1..Len(tasks) : LiveReport(i)
    \/ \E i \in 1..Len(tasks) : LiveUpload(i)
    \/ \E i \in 1..Len(tasks) : LiveLookup(i)
    \/ \E i \in 1..Len(tasks) : LiveEmail(i)
    \/ \E i \in 1..Len(tasks) : LiveDelete(i)

\* the event loop runs every coroutine that can go on and main itself; the
\* queue hands out every message that stays on it again and again
LiveFairness ==
    /\ WF_vars(CreateContainer)
    /\ WF_vars(LiveTaskStep)
    /\ WF_vars(GatherReturn)
    /\ \A h \in Handles : SF_vars(LiveReceive(h))

(***************************************************************************)
(* Initial state and specifications                                        *)
(***************************************************************************)
Init ==
    /\ completions = [h \in Habits |-> EmptyBag]
    /\ streak_call = StreakIdle
    /\ event_registry = RegistryAfter(Len(Registrations))
    /\ bus_pc = "idle"
    /\ event = NoEvent
    /\ stack = <<>>
    /\ log = <<>>
    /\ streak_store = <<>>
    /\ ses_outbox = <<>>
    /\ parse_in = ParseIdle
    /\ parse_out = ParseError("", "")
    /\ sqs_queue = <<>>
    /\ sent_count = 0
    /\ wpc = "poll"
    /\ polls = 0
    /\ receive_message = [Messages |-> <<>>]
    /\ tasks = <<>>
    /\ s3_objects = {}
    /\ ses_sent = <<>>
    /\ iso_week = 44
    /\ shutdown = Running
    /\ deliveries = [h \in {ReceiptHandleOf[n] : n \in 1..MaxMessages} |-> 0]
    /\ report_call = ReportIdle
    /\ week_call = WeekIdle
    /\ complete_calls = <<>>

SpecWorker == Init /\ [][NextWorker]_vars

SpecInterrupt == Init /\ [][NextInterrupt]_vars

SpecLive == Init /\ [][NextLive]_vars /\ LiveFairness

SpecReport == Init /\ [][NextReport]_vars

SpecWeekDates == Init /\ [][NextWeekDates]_vars

SpecParse == Init /\ [][NextParse]_vars

SpecStreak == Init /\ [][NextStreak]_vars

SpecBus == Init /\ [][NextBus]_vars

SpecComplete == Init /\ [][NextComplete]_vars

(***************************************************************************)
(* Claims about the streak calculator (SpecStreak)                         *)
(***************************************************************************)
DayGap(rows, i) == Date(rows[i]) - Date(rows[i + 1])

\* C7: on a most-recent-first list whose adjacent completions are all exactly
\* one calendar day apart the streak is the length of the list; when the
\* first pair more than one day apart is the k-th pair (1-based: rows k and
\* k+1) and every earlier pair is one day apart, the streak is k, whatever
\* follows the gap.
C7_StreakLengthOrFirstGap ==
    streak_call.state = "returned" =>
        LET rows == streak_call.rows
        IN  /\ (\A i \in 1..(Len(rows) - 1) : DayGap(rows, i) = 1)
                  => streak_call.streak = Len(rows)
            /\ \A k \in 1..(Len(rows) - 1) :
                  (/\ DayGap(rows, k) > 1
                   /\ \A j \in 1..(k - 1) : DayGap(rows, j) = 1)
                  => streak_call.streak = k

\* a streak of two ended by a gap that older completions follow
C7_Witness ==
    /\ streak_call.state = "returned"
    /\ Len(streak_call.rows) >= 4
    /\ DayGap(streak_call.rows, 1) = 1
    /\ DayGap(streak_call.rows, 2) > 1
    /\ DayGap(streak_call.rows, 3) = 1
    /\ streak_call.streak = 2

RECURSIVE OnePerDay(_)
\* the list with only the first completion of every calendar day kept
OnePerDay(rows) ==
    IF Len(rows) <= 1 THEN rows
    ELSE LET rest == OnePerDay(Tail(rows))
         IN  IF Date(rows[1]) = Date(rows[2]) THEN rest ELSE <<rows[1]>> \o rest

\* C8: same-day duplicates never change the streak: the streak of a
\* most-recent-first list equals the streak of the list reduced to one
\* completion per calendar day, wherever the duplicates are.
C8_DuplicatesNeutral ==
    streak_call.state = "returned" =>
        streak_call.streak = check_habit_consecutive_days(OnePerDay(streak_call.rows))

\* a duplicate inside the run, after the first day and before the last
C8_Witness ==
    /\ streak_call.state = "returned"
    /\ Len(streak_call.rows) >= 4
    /\ DayGap(streak_call.rows, 1) = 1
    /\ DayGap(streak_call.rows, 2) = 0
    /\ DayGap(streak_call.rows, 3) = 1
    /\ streak_call.streak = 3

(***************************************************************************)
(* Claims about the event bus and its handlers (SpecBus)                   *)
(***************************************************************************)
Calls(op) == SelectSeq(log, LAMBDA e : e.op = op)

\* the handlers invoked by the dispatch at the given depth, in order
InvokedAt(depth) == SelectSeq(log, LAMBDA e : e.op = "invoke" /\ e.n = depth)

RECURSIVE Names(_)
Names(entries) ==
    IF entries = <<>> THEN <<>> ELSE <<entries[1].who>> \o Names(Tail(entries))

RECURSIVE Funcs(_)
Funcs(regs) ==
    IF regs = <<>> THEN <<>> ELSE <<regs[1].func>> \o Funcs(Tail(regs))

\* the handlers subscribed to a type, in the order of their decorators
RegisteredFor(type) == Funcs(SelectSeq(Registrations, LAMBDA r : r.type = type))

\* the streak that check_streaks computes for the event of the dispatch
ComputedStreak ==
    check_habit_consecutive_days(
        get_completions_by_habit(completions, event.habit_id).rows)

Fetched == \E i \in 1..Len(log) :
              log[i].op = "get_completions_by_habit" /\ log[i].ok

HabitCompletedDone ==
    bus_pc = "returned" /\ event.type = "HabitCompletedEvent" /\ Fetched

\* C3: a handler that raises stops neither the handlers registered after it
\* nor dispatch: no exception leaves a dispatch, the top-level one returns
\* with every handler of the event's type invoked, and an exception inside a
\* nested dispatch does not reach the handler that called it.
C3_HandlerFailureIsolated ==
    /\ bus_pc # "raised"
    /\ \A i \in 1..Len(log) :
          log[i].op = "error" =>
             LET hs == IF log[i].n = 1 THEN RegisteredFor(event.type)
                       ELSE RegisteredFor("AchievementUnlockedEvent")
             IN  \A k \in 1..(Len(hs) - 1) :
                    (hs[k] = log[i].who /\ bus_pc = "returned") =>
                       \E j \in (i + 1)..Len(log) :
                          /\ log[j].op = "invoke"
                          /\ log[j].who = hs[k + 1]
                          /\ log[j].n = log[i].n
    /\ bus_pc = "returned" =>
          /\ Names(InvokedAt(1)) = RegisteredFor(event.type)
          /\ \A i \in 1..Len(log) :
                (log[i].op = "error" /\ log[i].n = 2) =>
                   /\ \E j \in (i + 1)..Len(log) :
                         /\ log[j].op = "return"
                         /\ log[j].who = "check_streaks"
                         /\ log[j].n = 1
                   /\ \A j \in 1..Len(log) :
                         ~(log[j].op = "error" /\ log[j].who = "check_streaks")

\* check_streaks raised at put_streak and award_points ran after it
C3_Witness ==
    /\ bus_pc = "returned"
    /\ \E i, j \in 1..Len(log) :
          /\ i < j
          /\ log[i].op = "error" /\ log[i].who = "check_streaks"
          /\ log[i - 1].op = "put_streak"
          /\ log[j].op = "update_points" /\ log[j].ok

RECURSIVE OpenHandlers(_, _)
\* the handlers started and not yet finished after the entries, the
\* innermost last; <<"overlap">> if a handler finished while another one,
\* started after it, was still running
OpenHandlers(entries, open) ==
    IF entries = <<>> \/ open = <<"overlap">> THEN open
    ELSE LET e == entries[1]
         IN  CASE e.op = "invoke" ->
                    OpenHandlers(Tail(entries),
                                 IF Len(open) = e.n - 1 THEN Append(open, e.who)
                                 ELSE <<"overlap">>)
               [] e.op \in {"return", "error"} ->
                    OpenHandlers(Tail(entries),
                                 IF open # <<>> /\ open[Len(open)] = e.who
                                    /\ Len(open) = e.n
                                 THEN SubSeq(open, 1, Len(open) - 1)
                                 ELSE <<"overlap">>)
               [] OTHER -> OpenHandlers(Tail(entries), open)

\* C4: dispatch invokes exactly the handlers registered for the event's type,
\* once each, in registration order, one at a time: a handler and the nested
\* dispatch it makes finish before the next handler starts; a type without
\* handlers gets no call at all and leaves the registry as it was.
C4_SequentialExactlyOnce ==
    /\ OpenHandlers(log, <<>>) # <<"overlap">>
    /\ DOMAIN event_registry = {"HabitCompletedEvent", "AchievementUnlockedEvent"}
    /\ \A t \in DOMAIN event_registry :
          Len(event_registry[t]) = Len(RegisteredFor(t))
    /\ bus_pc = "returned" =>
          /\ OpenHandlers(log, <<>>) = <<>>
          /\ Names(InvokedAt(1)) = RegisteredFor(event.type)
          /\ Names(InvokedAt(2)) =
                IF Calls("dispatch") # <<>>
                THEN RegisteredFor("AchievementUnlockedEvent") ELSE <<>>
          /\ RegisteredFor(event.type) = <<>> => log = <<>>
          /\ \A i, j \in 1..Len(log) :
                (log[i].op = "invoke" /\ log[i].who = "award_points"
                 /\ log[j].who \in {"check_streaks", "send_notification"}
                 /\ log[j].op \in {"invoke", "return", "error"})
                => j < i

\* check_streaks, the notification it triggered, then award_points
C4_Witness ==
    /\ bus_pc = "returned"
    /\ event.type = "HabitCompletedEvent"
    /\ \E i, j \in 1..Len(log) :
          /\ i < j
          /\ log[i].op = "send_congratulation_email" /\ log[i].ok
          /\ log[j].op = "invoke" /\ log[j].who = "award_points"

\* C9: check_streaks calls put_streak(user_id, habit_id, s) exactly when the
\* streak s computed from the fetched completions is greater than
\* event.streak_count, once and with that s; otherwise the streak store is
\* left as it was.
C9_PersistOnlyGreater ==
    /\ Len(Calls("put_streak")) <= 1
    /\ \A i \in 1..Len(log) :
          log[i].op = "put_streak" =>
             /\ ComputedStreak > event.streak_count
             /\ log[i].n = ComputedStreak
             /\ log[i].who = event.habit_id
             /\ log[i].uid = event.user_id
    /\ streak_store # <<>> =>
          /\ ComputedStreak > event.streak_count
          /\ streak_store = (<<event.user_id, event.habit_id>> :> ComputedStreak)
    /\ HabitCompletedDone =>
          (ComputedStreak > event.streak_count <=> Calls("put_streak") # <<>>)

\* a streak of 7 persisted over an event that carried 6
C9_Witness ==
    /\ HabitCompletedDone
    /\ event.streak_count = 6
    /\ Calls("put_streak") # <<>>
    /\ Calls("put_streak")[1].n = 7
    /\ streak_store = (<<event.user_id, event.habit_id>> :> 7)

MilestoneName(streak) ==
    IF streak = 1 THEN "TEST STREAK"
    ELSE IF streak = 7 THEN "1 Week Streak"
    ELSE IF streak = 30 THEN "1 Month Streak"
    ELSE "100 Days Streak"

PutStreakRaised == \E i \in 1..Len(log) : log[i].op = "put_streak" /\ ~log[i].ok

SixThenSeven ==
    /\ event.type = "HabitCompletedEvent"
    /\ event.streak_count = 6
    /\ Fetched
    /\ ComputedStreak = 7

\* in the log, in this order: put_streak with 7, the dispatch of "1 Week
\* Streak", send_notification invoked by that nested dispatch, and only then
\* the return of check_streaks to the top-level dispatch
WeekStreakTrace ==
    \E i, j, k, r \in 1..Len(log) :
        /\ i < j /\ j < k /\ k < r
        /\ log[i].op = "put_streak" /\ log[i].n = 7 /\ log[i].ok
        /\ log[i].who = event.habit_id /\ log[i].uid = event.user_id
        /\ log[j].op = "dispatch" /\ log[j].who = "1 Week Streak"
        /\ log[j].uid = event.user_id
        /\ log[k].op = "invoke" /\ log[k].who = "send_notification" /\ log[k].n = 2
        /\ log[k].uid = event.user_id
        /\ log[r].op = "return" /\ log[r].who = "check_streaks" /\ log[r].n = 1

\* the nested dispatch runs the handlers of the achievement event built from
\* the streak of 7
NestedIsWeekStreak ==
    (SixThenSeven /\ Len(stack) >= 2) =>
        /\ stack[2].ev = [type |-> "AchievementUnlockedEvent", user_id |-> event.user_id,
                          habit_id |-> "", streak_count |-> 0,
                          achievement_type |-> "1 Week Streak"]
        /\ stack[2].handlers = <<"send_notification">>
        /\ stack[1].handlers[stack[1].idx] = "check_streaks"

TierPoints(streak_count) ==
    CASE streak_count >= 100 -> 100
      [] streak_count >= 30 /\ streak_count < 100 -> 50
      [] streak_count >= 7 /\ streak_count < 30 -> 20
      [] OTHER -> 10

\* C12: for every streak_count >= 0 award_points calls update_points exactly
\* once, for the event's user_id, with 100 points from 100 on, 50 from 30 to
\* 99, 20 from 7 to 29 and 10 below 7 (6->10, 7->20, 29->20, 30->50, 99->50,
\* 100->100), whatever the user, the habit and its completions are.
C12_AwardPointsTiers ==
    /\ Len(Calls("update_points")) <= 1
    /\ \A i \in 1..Len(log) :
          log[i].op = "update_points" =>
             /\ event.type = "HabitCompletedEvent"
             /\ log[i].uid = event.user_id
             /\ log[i].n = TierPoints(event.streak_count)
             /\ <<event.streak_count, log[i].n>> \notin
                   {<<6, 20>>, <<7, 10>>, <<29, 50>>, <<30, 20>>, <<99, 100>>, <<100, 50>>}
             /\ log[i - 1] = [op |-> "invoke", who |-> "award_points", n |-> 1,
                              uid |-> event.user_id, ok |-> TRUE]
    /\ \A i \in 1..Len(log) :
          (log[i].op = "invoke" /\ log[i].who = "award_points")
             => (i < Len(log) /\ log[i + 1].op = "update_points")
    /\ (bus_pc = "returned" /\ event.type = "HabitCompletedEvent")
          => Len(Calls("update_points")) = 1

\* the dispatch of an event that carried 100 returned with 100 points added
C12_Witness ==
    /\ bus_pc = "returned"
    /\ event.type = "HabitCompletedEvent"
    /\ event.streak_count = 100
    /\ Len(Calls("update_points")) = 1
    /\ Calls("update_points")[1].n = 100
    /\ Calls("update_points")[1].ok

\* the calls of send_congratulation_email that SES accepted
EmailCalls == SelectSeq(log, LAMBDA e : e.op = "send_congratulation_email" /\ e.ok)

\* the user lookups of send_notification
Lookups == SelectSeq(log, LAMBDA e : e.op = "get_by_id")

\* one email for each accepted call, to the address of the event's user and
\* with the fixed subject; no call at all unless the lookup found the user
OneEmailToTheUser ==
    /\ Len(ses_outbox) = Len(EmailCalls)
    /\ Len(Calls("send_congratulation_email")) <= 1
    /\ \A k \in 1..Len(ses_outbox) :
          /\ ses_outbox[k].ToAddresses = <<EmailOf(EmailCalls[k].uid)>>
          /\ ses_outbox[k].Subject = "Congratulations on Your Achievement!"
    /\ \A i \in 1..Len(log) :
          log[i].op = "send_congratulation_email" =>
             /\ log[i - 1].op = "get_by_id"
             /\ log[i - 1].who = "user"
             /\ log[i - 1].uid = log[i].uid
    /\ \A i \in 1..Len(log) :
          (log[i].op = "get_by_id" /\ log[i].who = "none") =>
             /\ log[i].ok
             /\ i < Len(log) =>
                   /\ log[i + 1].op = "return"
                   /\ log[i + 1].who = "send_notification"
    /\ (bus_pc = "returned" /\ Lookups # <<>> /\ Lookups[1].who = "user")
          => Len(Calls("send_congratulation_email")) = 1

\* C13: send_notification sends, when the lookup returns a user, exactly one
\* congratulation email to that user's address with the fixed subject and a
\* body that embeds event.achievement_type; when the lookup returns nothing
\* it sends no email and returns without raising.
C13_CongratulationEmail ==
    /\ OneEmailToTheUser
    /\ \A k \in 1..Len(ses_outbox) :
          \E p \in 1..Len(ses_outbox[k].Body) :
             ses_outbox[k].Body[p] = EmailCalls[k].who

(***************************************************************************)
(* Claims about parse_message (SpecParse)                                  *)
(***************************************************************************)
\* the check whose error a message of parse_message's ValueError belongs to
ErrorCategory(out) ==
    IF out.type # "ValueError" THEN 0
    ELSE CASE out.message = "Message missing 'Body' field"          -> 1
           [] out.message = "Message missing 'ReceiptHandle' field" -> 2
           [] out.message = "Message body is not valid JSON"        -> 3
           [] out.message = "user_id missing in message body"       -> 4
           [] out.message = "user_id must be a string"              -> 4
           [] out.message = "user_id must be a valid UUID string"   -> 5
           [] OTHER                                                  -> 0

\* C5: parse_message checks body, handle, JSON, user_id and UUID in this
\* order and raises the error of the first check that fails, each check with
\* an error of its own: a message is rejected with the error of check k
\* exactly when k is the first check it fails.
C5_FirstFailingCheck ==
    parse_in.state = "parsed" =>
        /\ parse_out.ok <=> parse_in.fails = 0
        /\ ~parse_out.ok => ErrorCategory(parse_out) = parse_in.fails

Last(seq) == seq[Len(seq)]

StagesBeforeDelete == {"parse", "report", "render", "pdf", "upload", "lookup", "email"}

\* C1: in every run of process_message, delete_message is called only if
\* parsing, the report (not None), rendering, the PDF, the upload, the user
\* lookup and the email all succeeded in that run, an upload that returned
\* False counting as failed; after a failed stage no later stage runs.
C1_DeleteOnlyAfterAllStages ==
    \A i \in 1..Len(tasks) :
        /\ (\E k \in 1..Len(tasks[i].ran) : tasks[i].ran[k] = "delete")
              => StagesBeforeDelete \subseteq tasks[i].ok
        /\ \A k \in 1..Len(tasks[i].ran) :
              \A j \in 1..(k - 1) : tasks[i].ran[j] \in tasks[i].ok

\* every task of the batch is for its own message and is where its own
\* stages took it; none was cancelled; main waits for all of them
EachToItsOwnOutcome ==
    /\ Len(tasks) = Len(receive_message.Messages)
    /\ wpc # "gather" => \A i \in 1..Len(tasks) : Terminal(tasks[i])
    /\ \A i \in 1..Len(tasks) :
          /\ tasks[i].message = receive_message.Messages[i]
          /\ tasks[i].pc # "cancelled"
          /\ tasks[i].pc = "raised" =>
                /\ tasks[i].error # ""
                /\ Last(tasks[i].ran) \notin tasks[i].ok
          /\ tasks[i].pc = "returned" =>
                \/ Last(tasks[i].ran) = "delete" /\ "delete" \in tasks[i].ok
                \/ Last(tasks[i].ran) = "report" /\ "report" \notin tasks[i].ok
          /\ ~Terminal(tasks[i]) => tasks[i].error = ""

\* a step in which a task raises changes neither another task nor the loop
RaiseTouchesOnlyItsTask ==
    \A i \in 1..Len(tasks) :
        (Len(tasks') = Len(tasks) /\ tasks[i].pc # "raised" /\ tasks'[i].pc = "raised")
            => /\ wpc' = wpc
               /\ polls' = polls
               /\ \A j \in (1..Len(tasks)) \ {i} : tasks'[j] = tasks[j]

\* C2: each message of a received batch is processed to its own outcome: an
\* exception of one message's processing neither cancels, skips nor changes
\* the processing of another message of the batch, and it does not reach
\* main's loop, which polls again once the whole batch is through.
C2_BatchIsolation ==
    []EachToItsOwnOutcome /\ [][RaiseTouchesOnlyItsTask]_vars

\* a batch of two is through: the first message raised, the second was
\* processed to the end and deleted, and the loop is back at the poll
C2_Witness ==
    /\ Len(tasks) = 2
    /\ tasks[1].pc = "raised"
    /\ tasks[2].pc = "returned"
    /\ "delete" \in tasks[2].ok
    /\ Len(sqs_queue) = 1
    /\ wpc = "poll"
    /\ polls = 1

(***************************************************************************)
(* Claims about the weekly report (SpecReport)                             *)
(***************************************************************************)
\* the habits and the completions the repository of the call hands out
CallHabits == RepoHabits(report_call.repo, report_call.user_id)
CallCompletions ==
    LET week == WeekOfDay(report_call.now)
    IN  RepoCompletions(report_call.repo, report_call.user_id, week.start, week.end)

\* how many of the fetched completions carry the habit's id
Carrying(fetched, habit_id) ==
    Cardinality({j \in 1..Len(fetched) : fetched[j].habit_id = habit_id})

NoCompletionThisWeek ==
    LET db == report_call.repo.db
        week == WeekOfDay(report_call.now)
    IN  \A i \in 1..Len(db.completions) :
           \/ db.owner[db.completions[i].habit_id] # report_call.user_id
           \/ db.completions[i].completed_at < week.start
           \/ db.completions[i].completed_at > week.end

\* C15: for a user with at least one habit and no completion inside the
\* current week, calculate_weekly_stats over the real HabitRepository returns
\* a report, neither None nor an error, that lists every habit with total 0
\* and status "Missed".
C15_ReportWithoutCompletions ==
    (/\ report_call.state = "done"
     /\ report_call.repo.kind = "HabitRepository"
     /\ report_call.user_id # NoUser
     /\ CallHabits # <<>>
     /\ NoCompletionThisWeek)
       => /\ report_call.result.kind = "report"
          /\ Len(report_call.result.habits) = Len(CallHabits)
          /\ \A i \in 1..Len(report_call.result.habits) :
                /\ report_call.result.habits[i].total = 0
                /\ report_call.result.habits[i].status = "Missed"

\* C16: calculate_weekly_stats returns None for a user with zero habits, and
\* does so without fetching any completions; it never returns a report
\* whose habit list is empty.
C16_NoneWithoutHabits ==
    /\ (report_call.state = "done" /\ CallHabits = <<>>) =>
          /\ report_call.result.kind = "none"
          /\ ~report_call.result.fetched
    /\ (report_call.state = "done" /\ report_call.result.kind = "report") =>
          /\ report_call.result.habits # <<>>
          /\ report_call.result.fetched

\* a user without habits in a database that holds habits and completions of
\* another user: None, and get_completions_for_period was not called
C16_Witness ==
    /\ report_call.state = "done"
    /\ report_call.repo.kind = "HabitRepository"
    /\ report_call.user_id = 2
    /\ \A h \in HabitIds : report_call.repo.db.owner[h] = 1
    /\ Len(report_call.repo.db.completions) = 2
    /\ report_call.result.kind = "none"
    /\ ~report_call.result.fetched

\* the run of this task got None from calculate_weekly_stats
GotNoReport(t) ==
    /\ \E k \in 1..Len(t.ran) : t.ran[k] = "report"
    /\ "report" \notin t.ok
    /\ ~(t.pc = "raised" /\ Last(t.ran) = "report")

OnQueue(receipt_handle) ==
    \E k \in 1..Len(sqs_queue) : sqs_queue[k].ReceiptHandle = receipt_handle

\* C17: when calculate_weekly_stats returns None, process_message returns
\* normally and has rendered, built, uploaded, looked up, emailed and deleted
\* nothing: the message stays on the queue, and each redelivery for a user
\* still without habits ends the same way.
C17_SkipLeavesMessage ==
    \A i \in 1..Len(tasks) :
        /\ GotNoReport(tasks[i]) =>
              /\ tasks[i].pc = "returned"
              /\ tasks[i].error = ""
              /\ tasks[i].ran = <<"parse", "report">>
              /\ tasks[i].ok = {"parse"}
              /\ OnQueue(tasks[i].receipt_handle)
        /\ (tasks[i].pc # "start" /\ tasks[i].user_id # <<>>
            /\ tasks[i].user_id \notin UsersWithHabits) =>
              /\ tasks[i].pc \in {"stats", "returned", "raised"}
              /\ tasks[i].pc = "returned" => GotNoReport(tasks[i])
              /\ ReportsOf(tasks[i].user_id) = {}
              /\ EmailsTo(tasks[i].user_id) = {}
              /\ OnQueue(tasks[i].receipt_handle)

\* the message of a user without habits, received a second time, skipped
\* again and still on the queue
C17_Witness ==
    /\ Len(tasks) = 1
    /\ GotNoReport(tasks[1])
    /\ tasks[1].pc = "returned"
    /\ tasks[1].user_id = UuidB
    /\ deliveries[tasks[1].receipt_handle] = 2
    /\ OnQueue(tasks[1].receipt_handle)
    /\ wpc = "poll"

\* the user lookup of this run found no user
NoUserFound(t) ==
    /\ \E k \in 1..Len(t.ran) : t.ran[k] = "lookup"
    /\ "lookup" \notin t.ok
    /\ t.error # "DatabaseException"

\* a run whose lookup found no user has raised ValueError there: upload was
\* called before, email and delete are not called, the message is on the
\* queue and what the upload stored is in the bucket
RaisedAtLookup ==
    \A i \in 1..Len(tasks) :
        NoUserFound(tasks[i]) =>
           /\ tasks[i].pc = "raised"
           /\ tasks[i].error = "ValueError"
           /\ tasks[i].ran = <<"parse", "report", "render", "pdf", "upload", "lookup">>
           /\ OnQueue(tasks[i].receipt_handle)
           /\ "upload" \in tasks[i].ok => Stored(tasks[i])

\* the step in which the lookup fails sends and deletes nothing, and no step
\* leaves a key of the bucket without its object
NothingUndone ==
    /\ \A o \in s3_objects : ObjectsUnder(s3_objects', o.key) # {}
    /\ \A i \in 1..Len(tasks) :
          (/\ Len(tasks') = Len(tasks)
           /\ tasks[i].pc = "lookup"
           /\ tasks'[i].pc = "raised")
             => /\ ses_sent' = ses_sent
                /\ sqs_queue' = sqs_queue
                /\ s3_objects' = s3_objects

\* C18: when the lookup of the recipient returns no user, process_message
\* raises, sends no email and does not delete the message; the upload of the
\* run was made before and is not undone.
C18_LookupFailureKeepsMessage ==
    []RaisedAtLookup /\ [][NothingUndone]_vars

\* a run that stored its report, found no user and raised: the object is in
\* the bucket, no email went out, the message is on the queue
C18_Witness ==
    /\ Len(tasks) = 1
    /\ NoUserFound(tasks[1])
    /\ tasks[1].pc = "raised"
    /\ "upload" \in tasks[1].ok
    /\ Stored(tasks[1])
    /\ ses_sent = <<>>
    /\ OnQueue(tasks[1].receipt_handle)
    /\ wpc = "poll"

\* parse_message rejects the message
Rejected(message) == ~Parsed[message].ok

\* a task for a rejected message does parse_message and nothing else, and
\* its message is on the queue
RejectedRunsStopAtParse ==
    \A i \in 1..Len(tasks) :
        Rejected(tasks[i].message) =>
           /\ tasks[i].pc \in {"start", "raised"}
           /\ tasks[i].pc = "raised" =>
                 /\ tasks[i].ran = <<"parse">>
                 /\ tasks[i].error = "ValueError"
           /\ tasks[i].pc = "start" => tasks[i].ran = <<>>
           /\ tasks[i].ok = {}
           /\ OnQueue(tasks[i].message.ReceiptHandle)

\* no step takes a rejected message off the queue
RejectedStaysOnQueue ==
    \A k \in 1..Len(sqs_queue) :
        Rejected(sqs_queue[k]) =>
           \E j \in 1..Len(sqs_queue') : sqs_queue'[j] = sqs_queue[k]

\* C19: a message that parse_message rejects is never deleted by the worker
\* and leads to no repository query, upload or email, however often it is
\* delivered again; no step of the worker drops it from the queue.
C19_RejectedNeverDeleted ==
    []RejectedRunsStopAtParse /\ [][RejectedStaysOnQueue]_vars

\* a rejected message received for the second time: raised at parse again,
\* still on the queue, nothing stored and nothing sent
C19_Witness ==
    /\ Len(tasks) = 1
    /\ Rejected(tasks[1].message)
    /\ tasks[1].pc = "raised"
    /\ deliveries[tasks[1].message.ReceiptHandle] = 2
    /\ OnQueue(tasks[1].message.ReceiptHandle)
    /\ s3_objects = {}
    /\ ses_sent = <<>>
    /\ wpc = "poll"

\* the key is a function of user and week and of nothing else, and no key
\* of the bucket holds two objects
OneObjectPerKey ==
    /\ \A u1 \in UserIds, u2 \in UserIds, w1 \in Weeks, w2 \in Weeks :
          s3_key(u1, w1) = s3_key(u2, w2) <=> (u1 = u2 /\ w1 = w2)
    /\ \A o \in s3_objects : ObjectsUnder(s3_objects, o.key) = {o}
    /\ \A i \in 1..Len(tasks) :
          "upload" \in tasks[i].ok =>
             Cardinality(ObjectsUnder(s3_objects,
                 s3_key(tasks[i].user_id, tasks[i].week_number))) = 1

\* every run that sent its email has exactly one email in the outbox, to its
\* user and with its own buffer
OneEmailPerRun ==
    \A i \in 1..Len(tasks) :
        "email" \in tasks[i].ok =>
           Cardinality({k \in 1..Len(ses_sent) :
              ses_sent[k] = [recipient |-> tasks[i].user_id,
                             attachment |-> PdfBuffer(tasks[i])]}) = 1

\* task i passes from one stage to the next in this step
Passes(i, from, to) ==
    /\ Len(tasks') = Len(tasks)
    /\ tasks[i].pc = from
    /\ tasks'[i].pc = to

\* a storing upload leaves its buffer as the one object of its key and the
\* other keys as they were; the email step adds one email; the delete step
\* takes the message of the run, and no other, off the queue
RunActsOnItsOwn ==
    \A i \in 1..Len(tasks) :
       LET key == s3_key(tasks[i].user_id, tasks[i].week_number)
       IN  /\ (Passes(i, "upload", "lookup") /\ "upload" \in tasks'[i].ok) =>
                 /\ ObjectsUnder(s3_objects', key) =
                       {[key |-> key, buffer |-> PdfBuffer(tasks[i])]}
                 /\ s3_objects' \ ObjectsUnder(s3_objects', key) =
                       s3_objects \ ObjectsUnder(s3_objects, key)
           /\ Passes(i, "email", "delete") =>
                 ses_sent' = Append(ses_sent,
                     [recipient |-> tasks[i].user_id,
                      attachment |-> PdfBuffer(tasks[i])])
           /\ Passes(i, "delete", "returned") =>
                 /\ Len(sqs_queue') = Len(sqs_queue) - 1
                 /\ sqs_queue' = SelectSeq(sqs_queue,
                       LAMBDA m : m # tasks[i].message)

\* C20: the upload key is a function of (user_id, week_number) alone; after
\* any runs for one user in one ISO week, redelivered or concurrent in one
\* batch, the bucket holds one object under the key, the last one written,
\* and every completed run has sent its own email and deleted its own
\* message.
C20_OverwriteByKey ==
    [](OneObjectPerKey /\ OneEmailPerRun) /\ [][RunActsOnItsOwn]_vars

\* two messages of one user in one batch, both runs completed in the same
\* week: one object under the key, two emails, both messages deleted
C20_Witness ==
    /\ Len(tasks) = 2
    /\ \A i \in 1..2 :
          /\ tasks[i].pc = "returned"
          /\ tasks[i].ok = {"parse", "report", "render", "pdf", "upload",
                            "lookup", "email", "delete"}
    /\ tasks[1].user_id = tasks[2].user_id
    /\ tasks[1].week_number = tasks[2].week_number
    /\ Cardinality(ObjectsUnder(s3_objects,
          s3_key(tasks[1].user_id, tasks[1].week_number))) = 1
    /\ \E o \in s3_objects : o.buffer = PdfBuffer(tasks[1])
    /\ Cardinality(EmailsTo(tasks[1].user_id)) = 2
    /\ sqs_queue = <<>>

\* the buffer create_pdf_buffer has just returned is at offset 0: reading it
\* without a seek gives the whole PDF
ReturnedAtStart ==
    \A i \in 1..Len(tasks) :
        tasks[i].pc = "upload" =>
           /\ tasks[i].pdf_buffer.pos = 0
           /\ Read(tasks[i].pdf_buffer).bytes = PdfBuffer(tasks[i])

\* the PDF documents of all runs
AllPdfs == {<<h, n>> : h \in DOMAIN deliveries, n \in 1..MaxPolls}

\* what the upload stored and what the email carries is a whole PDF, and
\* for the runs of the batch it is the PDF of the run
ConsumersGetWholePdf ==
    /\ \A o \in s3_objects : o.buffer \in AllPdfs
    /\ \A k \in 1..Len(ses_sent) : ses_sent[k].attachment \in AllPdfs
    /\ \A i \in 1..Len(tasks) :
          "email" \in tasks[i].ok =>
             \E k \in 1..Len(ses_sent) : ses_sent[k].attachment = PdfBuffer(tasks[i])

\* C21: the buffer create_pdf_buffer returns has its read position at the
\* start, so that a read without a seek gives the whole PDF; and in the
\* worker both consumers of the buffer, the upload and then the email
\* attachment, get the complete PDF bytes.
C21_WholePdfToConsumers == ReturnedAtStart /\ ConsumersGetWholePdf

\* microseconds since the midnight that begins day 0
Micros(dt) == dt.day * MicrosPerDay + dt.us

\* day 0 is a Monday: the Monday-to-Sunday week a day lies in
MondayWeek(day) == day \div 7

\* the pair returned for this instant is its Monday-to-Sunday week
IsWeekOf(week, instant) ==
    /\ week.start.day % 7 = 0
    /\ week.start.us = 0
    /\ week.end.day = week.start.day + 6
    /\ week.end.us = MicrosPerDay - 1
    /\ Micros(week.start) <= Micros(instant)
    /\ Micros(instant) <= Micros(week.end)
    /\ Micros(week.end) - Micros(week.start) = 7 * MicrosPerDay - 1

\* C22: for every instant get_week_start_end_dates returns a Monday at
\* 00:00:00.000000 and the following Sunday at 23:59:59.999999 with
\* start <= instant <= end and end - start = 7 days less a microsecond, and
\* two instants of one Monday-to-Sunday week give the same pair.
C22_WeekWindow ==
    week_call.state = "done" =>
       /\ IsWeekOf(week_call.of_a, week_call.a)
       /\ IsWeekOf(week_call.of_b, week_call.b)
       /\ MondayWeek(week_call.a.day) = MondayWeek(week_call.b.day)
             => week_call.of_a = week_call.of_b

\* the first microsecond of a Monday and the last microsecond of the Sunday
\* after it: the same pair, whose ends are these two instants
C22_Witness ==
    /\ week_call.state = "done"
    /\ week_call.a = Datetime(7, 0)
    /\ week_call.b = Datetime(13, MicrosPerDay - 1)
    /\ week_call.of_a = week_call.of_b
    /\ week_call.of_a = [start |-> week_call.a, end |-> week_call.b]

\* nothing is received, processed, stored, sent or deleted in this step
NoMessageTouched ==
    /\ tasks' = tasks
    /\ sqs_queue' = sqs_queue
    /\ deliveries' = deliveries
    /\ s3_objects' = s3_objects
    /\ ses_sent' = ses_sent

\* the step in which the receive fails touches no message and leads to the
\* sleep; the loop sleeps only after a failed receive; while it sleeps no
\* message is touched, and the one sleep ends in the next poll
FailedReceiveStep ==
    /\ (wpc = "poll" /\ wpc' = "sleep") => (NoMessageTouched /\ polls' = polls + 1)
    /\ (wpc # "sleep" /\ wpc' = "sleep") => wpc = "poll"
    /\ wpc = "sleep" => (NoMessageTouched /\ polls' = polls /\ wpc' \in {"sleep", "poll"})

\* the loop is at its poll, in a batch or in the sleep, and during the sleep
\* no task is in flight
LoopGoesOn ==
    /\ wpc \in {"poll", "gather", "sleep"}
    /\ shutdown = Running
    /\ wpc = "sleep" => \A i \in 1..Len(tasks) : Terminal(tasks[i])

\* C23: when the receive call itself fails the worker processes and deletes
\* no message in that iteration, sleeps the backoff once and polls again; a
\* failed receive never ends the loop.
C23_ReceiveFailureBacksOff == []LoopGoesOn /\ [][FailedReceiveStep]_vars

\* the second receive failed while the message of the first batch, whose run
\* raised, is still on the queue: the loop sleeps and the message is as it was
C23_Witness ==
    /\ wpc = "sleep"
    /\ polls = 2
    /\ Len(tasks) = 1
    /\ tasks[1].pc = "raised"
    /\ OnQueue(tasks[1].message.ReceiptHandle)
    /\ deliveries[tasks[1].message.ReceiptHandle] = 1

\* once interrupted main is in its finally clause or has ended, no task is
\* in flight, and engine.dispose() was called once when main has ended and
\* not before
InterruptedMainEnds(ends) ==
    /\ shutdown.main # "running" =>
          /\ wpc \in {"finally", "stopped"}
          /\ \A i \in 1..Len(tasks) : Terminal(tasks[i])
    /\ wpc = "finally" => (shutdown.main = "interrupted" /\ shutdown.disposals = 0)
    /\ wpc = "stopped" => (shutdown.main \in ends /\ shutdown.disposals = 1)

\* after the interrupt no poll is begun and no message is touched
NoPollAfterInterrupt ==
    shutdown.main # "running" => (polls' = polls /\ NoMessageTouched)

IsPrefix(a, b) == Len(a) <= Len(b) /\ SubSeq(b, 1, Len(a)) = a

\* what a run has called, in order, is a beginning of parse, report, render,
\* pdf, upload, lookup, email, delete: each once at most, none before the
\* one it follows
StagesInOrder ==
    \A i \in 1..Len(tasks) : IsPrefix(tasks[i].ran, Stages)

\* an object is stored by a run at its upload, an email is sent by a run
\* that has made its upload and its lookup, a message is deleted by a run
\* that has sent its email
EffectsInOrder ==
    /\ s3_objects' # s3_objects =>
          \E i \in 1..Len(tasks) :
             /\ tasks[i].pc = "upload"
             /\ tasks[i].ran = SubSeq(Stages, 1, 4)
             /\ tasks'[i].ran = SubSeq(Stages, 1, 5)
    /\ ses_sent' # ses_sent =>
          \E i \in 1..Len(tasks) :
             /\ tasks[i].pc = "email"
             /\ tasks[i].ran = SubSeq(Stages, 1, 6)
             /\ tasks'[i].ran = SubSeq(Stages, 1, 7)
             /\ ses_sent' = Append(ses_sent, [recipient |-> tasks[i].user_id,
                                              attachment |-> PdfBuffer(tasks[i])])
    /\ Len(sqs_queue') < Len(sqs_queue) =>
          \E i \in 1..Len(tasks) :
             /\ tasks[i].pc = "delete"
             /\ tasks[i].ran = SubSeq(Stages, 1, 7)
             /\ "email" \in tasks[i].ok
             /\ tasks'[i].ran = Stages

\* C25: in every run of process_message the external effects come in the
\* order report query, upload, user lookup, email, delete, each once at most
\* and each after the one before it has returned: no email without the
\* upload of the run before it, no delete before the email of the run.
C25_EffectsInFixedOrder == []StagesInOrder /\ [][EffectsInOrder]_vars

\* a run that went through all its stages, while the other run of the batch
\* has made its upload and not yet its lookup
C25_Witness ==
    /\ Len(tasks) = 2
    /\ tasks[1].pc = "returned"
    /\ tasks[1].ran = Stages
    /\ tasks[2].pc = "lookup"
    /\ tasks[2].ran = SubSeq(Stages, 1, 5)
    /\ Len(ses_sent) = 1
    /\ Len(sqs_queue) = 1

\* the message of this receipt handle is on the queue, is well-formed and is
\* for a user with a habit in the repository of the container
Eligible(h) ==
    /\ report_call.state = "wired"
    /\ \E k \in 1..Len(sqs_queue) :
          /\ sqs_queue[k].ReceiptHandle = h
          /\ Parsed[sqs_queue[k]].ok
          /\ RepoHabits(report_call.repo,
                        UserNumber(Parsed[sqs_queue[k]].user_id)) # <<>>

\* a message leaves the queue only when a report of its user is in the
\* bucket and an email to the user is in the outbox
DeletedAfterUploadAndEmail ==
    \A k \in 1..Len(sqs_queue) :
        (\A j \in 1..Len(sqs_queue') : sqs_queue'[j] # sqs_queue[k]) =>
           LET user_id == Parsed[sqs_queue[k]].user_id
           IN  /\ ReportsOf(user_id) # {}
               /\ EmailsTo(user_id) # {}

\* with the repository of the tests in the place of HabitRepository every
\* such message is deleted in the end
DeletedWithListRepository ==
    \A h \in Handles :
        (Eligible(h) /\ report_call.repo.kind = "lists") ~> ~OnQueue(h)

\* C26: the queue hands out every message that is not deleted, the worker
\* keeps polling and the external calls succeed; then every well-formed
\* message of an existing user with a habit is deleted from the queue in
\* the end, after an upload and an email for it.
C26_EventuallyDeleted ==
    /\ \A h \in Handles : Eligible(h) ~> ~OnQueue(h)
    /\ [][DeletedAfterUploadAndEmail]_vars

(***************************************************************************)
(* Claims about the HTTP completion flow (SpecComplete)                    *)
(***************************************************************************)
\* 1 <= streak <= len(rows) <= 90
WithinFetched(streak, rows) ==
    /\ 1 <= streak
    /\ streak <= Len(rows)
    /\ Len(rows) <= 90

\* check_streaks has fetched and computed its streak in this step
HandlerComputed ==
    /\ AtHandler("check_streaks", "start")
    /\ Len(stack') = Depth
    /\ stack'[Depth].hpc = "persist"

HandlerStreakWithinFetched ==
    HandlerComputed =>
        WithinFetched(stack'[Depth].streak,
                      get_completions_by_habit(completions, Top.ev.habit_id).rows)

\* request i got its streak from get_streak_for_habit in this step
RequestComputed(i) ==
    /\ complete_calls[i].state = "logged"
    /\ complete_calls'[i].state = "scheduled"

RequestStreakWithinFetched ==
    \A i \in DOMAIN complete_calls :
        RequestComputed(i) =>
            WithinFetched(complete_calls'[i].event.streak_count,
                          get_completions_by_habit(completions,
                                                   complete_calls[i].habit_id).rows)

\* no 100-day milestone, no streak_count of the top point tier
NoHundred ==
    /\ \A j \in 1..Len(log) :
          /\ log[j].op = "dispatch" => log[j].who # "100 Days Streak"
          /\ log[j].op = "update_points" => log[j].n < 10 * 10
    /\ \A k \in 1..Len(stack) :
          (stack[k].handlers[1] = "check_streaks" /\ stack[k].hpc # "start")
             => _check_milestone(stack[k].streak) # "100 Days Streak"
    /\ \A i \in DOMAIN complete_calls :
          complete_calls[i].state \in {"scheduled", "dispatched", "done"}
             => complete_calls[i].event.streak_count < 100

\* C27: the streak computed by check_streaks and by get_streak_for_habit is
\* at least 1, at most the number of completions fetched, and these are at
\* most 90; so check_streaks never matches the milestone 100 and a
\* streak_count that comes from get_streak_for_habit never reaches the
\* point tier of 100 and more.
C27_StreakWithinFetched ==
    /\ []NoHundred
    /\ [][HandlerStreakWithinFetched]_vars
    /\ [][RequestStreakWithinFetched]_vars

\* the LIMIT cut the rows of a habit both times: the request and the
\* handler computed 90 over a table of more than 90 rows
C27_Witness ==
    /\ bus_pc = "running"
    /\ Len(stack) = 1
    /\ stack[1].handlers[1] = "check_streaks"
    /\ stack[1].idx = 1
    /\ stack[1].hpc = "persist"
    /\ stack[1].streak = 90
    /\ stack[1].ev.streak_count = 90
    /\ BagCardinality(completions[stack[1].ev.habit_id]) > 90

\* the request whose background task is the dispatch in progress
Dispatched(i) ==
    /\ i \in DOMAIN complete_calls
    /\ complete_calls[i].state = "dispatched"

\* a completion of the habit of request i was recorded after the request
\* computed its streak
FurtherCompletion(i) ==
    BagCardinality(completions[complete_calls[i].habit_id]) # complete_calls[i].recorded

\* check_streaks fetches with no further completion on record: the streak it
\* computes does not pass the test before put_streak
SameRowsSameStreak ==
    \A i \in DOMAIN complete_calls :
        (Dispatched(i) /\ HandlerComputed /\ ~FurtherCompletion(i))
           => ~ShouldPersist(stack'[Depth].streak, stack[Depth].ev.streak_count)

\* the step of check_streaks after its fetch, for a streak that does not
\* pass the test, calls nothing
NoPutWithoutGreaterStreak ==
    (AtHandler("check_streaks", "persist")
       /\ ~ShouldPersist(Top.streak, Top.ev.streak_count)
       /\ stack' # stack)
       => (streak_store' = streak_store /\ log' = log)

\* the streak store changes, and put_streak is called, in that step only
PutOnlyByCheckStreaks ==
    (streak_store' # streak_store \/ Len(Calls("put_streak")') # Len(Calls("put_streak")))
       => AtHandler("check_streaks", "persist")

\* C28: in the HTTP completion flow check_streaks calls put_streak only if
\* a further completion of the habit was recorded between the request's
\* get_streak_for_habit and the handler's fetch; otherwise the event leaves
\* the streak store as it was.
C28_PutOnlyAfterFurtherCompletion ==
    /\ [][SameRowsSameStreak]_vars
    /\ [][NoPutWithoutGreaterStreak]_vars
    /\ [][PutOnlyByCheckStreaks]_vars

\* a completion on the next day came in between: put_streak stored a streak
\* above the event's streak_count
C28_Witness ==
    /\ \E i \in DOMAIN complete_calls :
          /\ Dispatched(i)
          /\ FurtherCompletion(i)
          /\ LET e == complete_calls[i].event
             IN  /\ <<e.user_id, e.habit_id>> \in DOMAIN streak_store
                 /\ streak_store[<<e.user_id, e.habit_id>>] > e.streak_count
    /\ Len(Calls("put_streak")) = 1

\* check_streaks moves on from the test before put_streak
LeavesPersist ==
    /\ AtHandler("check_streaks", "persist")
    /\ stack' # stack

\* ... to its milestone lookup
GoesOnToMilestone ==
    /\ Len(stack') = Depth
    /\ stack'[Depth] = [Top EXCEPT !.hpc = "milestone"]

\* put_streak was called in this step and raised
PutStreakRaisedNow ==
    \E j \in (Len(log) + 1)..Len(log') : log'[j].op = "put_streak" /\ ~log'[j].ok

\* the milestone lookup with a streak of the table: the achievement event is
\* dispatched, and the nested dispatch has send_notification to invoke
MilestoneDispatched ==
    (AtHandler("check_streaks", "milestone")
       /\ stack' # stack
       /\ Top.streak \in {1, 7, 30, 100})
       => /\ Len(log') = Len(log) + 1
          /\ log'[Len(log')].op = "dispatch"
          /\ log'[Len(log')].who = MilestoneName(Top.streak)
          /\ log'[Len(log')].uid = Top.ev.user_id
          /\ Len(stack') = Depth + 1
          /\ stack'[Depth + 1].ev.type = "AchievementUnlockedEvent"
          /\ stack'[Depth + 1].ev.user_id = Top.ev.user_id
          /\ stack'[Depth + 1].ev.achievement_type = MilestoneName(Top.streak)
          /\ stack'[Depth + 1].handlers = <<"send_notification">>
          /\ stack'[Depth + 1].idx = 1
          /\ stack'[Depth + 1].hpc = "start"

\* a streak that is not above event.streak_count goes on to the lookup, with
\* no call in between
NotPersistedGoesOn ==
    (LeavesPersist /\ ~(Top.streak > Top.ev.streak_count))
       => (GoesOnToMilestone /\ log' = log /\ streak_store' = streak_store)

C30_WeekNumberOfWindow ==
    report_call.result.kind = "report" =>
        /\ report_call.result.week_number = IsoWeek(report_call.result.start_date)
        /\ report_call.result.week_number = IsoWeek(report_call.result.end_date)

\* the same, for the calls whose two readings fall into one week
WeekNumberWithinOneWeek ==
    (report_call.result.kind = "report" /\ IsoWeek(report_call.now) = IsoWeek(report_call.later))
       => /\ report_call.result.week_number = IsoWeek(report_call.result.start_date)
          /\ report_call.result.week_number = IsoWeek(report_call.result.end_date)

====
